---- MODULE Spec2Model ----
(***************************************************************************)
(* Model of the AI provider orchestration layer of the Codie backend       *)
(* (backend/app/services/ai_providers.py): CircuitBreaker,                 *)
(* TokenUsageTracker, AIProvider.execute_with_circuit_breaker, the Gemini  *)
(* and Hugging Face providers, the development mock provider and           *)
(* AIProviderManager.get_suggestions.                                      *)
(*                                                                         *)
(* Requests are asyncio tasks of one event loop: a task runs without       *)
(* interruption from one await that suspends to the next.  The only await  *)
(* that suspends is the HTTP call of a real provider, so one action of the *)
(* model is everything a get_suggestions call does from its start, or from *)
(* the completion of its outstanding HTTP call, up to its next HTTP call   *)
(* or its end.                                                             *)
(*                                                                         *)
(* Further down: AIAnalyzer.analyze_code with its result cache             *)
(* (backend/app/services/ai_analyzer.py), and build_graph and              *)
(* build_refactor_plan (graph_builder.py, refactor_planner.py) as          *)
(* functions of the source tree they are given.                            *)
(***************************************************************************)
EXTENDS Integers, Sequences, FiniteSets, TLC

\* ------------------------------------------------------------------ bounds
NumReq     == 2     \* request tasks that can be active at the same time
MaxStarted == 7     \* get_suggestions calls made in one behaviour
MaxTime    == 180   \* the clock stops advancing here
MaxTokens  == 45    \* no tracker records usage beyond this total

\* ------------------------------------------------------- program constants
failure_threshold == 5
recovery_timeout  == 60
expected_exception == "ProviderUnavailable"

CLOSED    == "closed"
OPEN      == "open"
HALF_OPEN == "half_open"

RealProviders == {"gemini", "huggingface"}
ProviderNames == {"gemini", "huggingface", "openai", "mock"}

VARIABLES
    settings,    \* settings.ai: the three API keys read at construction
    providers,   \* AIProviderManager.providers: names of the installed providers
    cb,          \* provider -> its circuit breaker's fields
    tracker,     \* provider -> the usage dict of its TokenUsageTracker
    now,         \* time.time()
    pc,          \* request -> "idle" | "calling" | "returned" | "raised"
    code,        \* request -> the code argument of its get_suggestions call
    pos,         \* request -> index in provider_order of the provider being called
    log,         \* request -> what each provider it invoked did, in order
    result,      \* request -> the list get_suggestions returned
    error,       \* request -> the exception get_suggestions raised, or "none"
    started,     \* number of get_suggestions calls made so far
    streak,      \* provider -> ProviderUnavailable failures its calls ended in
                 \*             since the last call that succeeded
    cache,       \* AIAnalyzer.cache: cache key -> [suggestions, timestamp]
    last_cache_cleanup,  \* AIAnalyzer.last_cache_cleanup
    clock,       \* datetime.now(), in seconds since the analyzer was constructed
    call,        \* the analyze_code call in progress, or the last one that ended
    analyzed,    \* number of analyze_code calls made so far
    root,        \* the source tree handed to build_graph / build_refactor_plan
    graph,       \* what build_graph(root) returned
    top_n,       \* the top_n argument of build_refactor_plan
    plan,        \* what build_refactor_plan(root, top_n) returned
    measurement, \* a compute_complexity call: its arguments, the state of the
                 \* parsers, and what it returned
    limiter,     \* RateLimitMiddleware.config
    hits,        \* the store's request times: rate limit key -> times
    wall,        \* time.time(), in ticks since the process started
    sent,        \* the HTTP requests received so far and when they came
    response     \* the last HTTP request and the response it was given

analyzer_vars == <<cache, last_cache_cleanup, clock, call, analyzed>>

graph_vars == <<root, graph, top_n, plan>>

complexity_vars == <<measurement>>

limiter_vars == <<limiter, hits, wall, sent, response>>

vars == <<settings, providers, cb, tracker, now, pc, code, pos, log, result, error,
          started, streak, analyzer_vars, graph_vars, complexity_vars, limiter_vars>>

Reqs == 1..NumReq

\* ------------------------------------------------------------------ inputs
Whitespace == {" ", "\n"}

\* a code argument of analyze_code: the tokens of unit, written times times
NoSnippet == [unit |-> <<>>, times |-> 0]

NoRoot == [exists |-> FALSE, files |-> <<>>]

\* build_graph has not been called
NoGraph == [pending |-> TRUE]

default_top_n == 10

\* no plan has been generated
NoPlan == [generated_at |-> -1, suggestions |-> <<>>]

\* compute_complexity has not been called
NoMeasure == [language |-> "", content |-> NoSnippet, parser |-> "ok", value |-> -1]

\* RateLimitConfig as create_app builds it from the default settings
DefaultConfig == [window_sec |-> 60, max_requests |-> 100, store |-> "redis"]

\* request.headers.get(...) and request.state.user_id when there is none
NoRequest ==
    [path |-> "", host |-> "None", x_forwarded_for |-> <<>>, x_real_ip |-> "None",
     cf_connecting_ip |-> "None", api_key |-> "None", user_id |-> "None"]

\* store.hit has not been called
NoHit == [times |-> <<>>, allowed |-> TRUE, remaining |-> -1, retry_after |-> -1]

\* no HTTP request has been received
NoResponse == [request |-> NoRequest, key |-> <<>>, status |-> 0, headers |-> <<>>, hit |-> NoHit]

Codes == { <<>>, <<" ", "\n">>, <<"d", "e", "f", " ", "f">> }

RetryValues == {0, 3}

KeyValues == {"None", "", "key"}

TickSteps == {30, 60}

Line(t, n) == [text |-> t, len |-> n]

Payloads ==
    { <<Line("ok", 2)>>,
      <<Line("Use a context manager", 21), Line("Fix it", 6), Line("Avoid bare except", 17)>> }

\* what the HTTP call of a provider can end in
NetOutcomes ==
    { [kind |-> "timeout",         status |-> 0, is_json |-> FALSE, has_fields |-> FALSE, lines |-> <<>>],
      [kind |-> "transport_error", status |-> 0, is_json |-> FALSE, has_fields |-> FALSE, lines |-> <<>>],
      [kind |-> "response", status |-> 503, is_json |-> TRUE,  has_fields |-> TRUE,  lines |-> <<>>],
      [kind |-> "response", status |-> 200, is_json |-> FALSE, has_fields |-> FALSE, lines |-> <<>>],
      [kind |-> "response", status |-> 200, is_json |-> TRUE,  has_fields |-> FALSE, lines |-> <<>>] }
    \cup { [kind |-> "response", status |-> 200, is_json |-> TRUE, has_fields |-> TRUE, lines |-> l] :
             l \in Payloads }

\* the outcomes that differ in what the manager observes
SeqOutcomes == {o \in NetOutcomes : o.kind # "transport_error" /\ (o.status = 200 => o.is_json)}

\* --------------------------------------------------------------- exceptions
\* CancelledError derives from BaseException, every other class from Exception
IsException(exc) == exc # "CancelledError"

\* isinstance against the default expected_exception of CircuitBreaker, Exception
IsInstance_of_default(exc, cls) == IsException(exc)

IsInstance(exc, cls) == exc = cls

\* ---------------------------------------------------------- CircuitBreaker
NewBreaker == [failure_count |-> 0, last_failure_time |-> 0, status |-> CLOSED]

can_execute(b, t) ==
    IF b.status = CLOSED THEN [ok |-> TRUE, b |-> b]
    ELSE IF b.status = OPEN THEN
        IF t - b.last_failure_time >= recovery_timeout
        THEN [ok |-> TRUE, b |-> [b EXCEPT !.status = HALF_OPEN]]
        ELSE [ok |-> FALSE, b |-> b]
    ELSE [ok |-> TRUE, b |-> b]

\* on_success closing the breaker without resetting the counter
on_success_keeps_count(b) == [b EXCEPT !.status = CLOSED]

on_success(b) == [b EXCEPT !.failure_count = 0, !.status = CLOSED]

\* on_failure comparing with > where the code has >=
on_failure_late(b, exc, t) ==
    IF IsInstance(exc, expected_exception) THEN
        LET n == b.failure_count + 1 IN
        [failure_count     |-> n,
         last_failure_time |-> t,
         status            |-> IF n > failure_threshold THEN OPEN ELSE b.status]
    ELSE b

on_failure(b, exc, t) ==
    IF IsInstance(exc, expected_exception) THEN
        LET n == b.failure_count + 1 IN
        [failure_count     |-> n,
         last_failure_time |-> t,
         status            |-> IF n >= failure_threshold THEN OPEN ELSE b.status]
    ELSE b

\* ------------------------------------------------------- TokenUsageTracker
NoUsage == [input |-> 0, output |-> 0, total |-> 0]

\* record_usage adding only the input tokens to the total
record_usage_input_only(usage, provider, input_tokens, output_tokens) ==
    LET u == IF provider \in DOMAIN usage THEN usage[provider] ELSE NoUsage IN
    [n \in (DOMAIN usage) \cup {provider} |->
        IF n = provider
        THEN [input  |-> u.input + input_tokens,
              output |-> u.output + output_tokens,
              total  |-> u.total + input_tokens]
        ELSE usage[n]]

record_usage(usage, provider, input_tokens, output_tokens) ==
    LET u == IF provider \in DOMAIN usage THEN usage[provider] ELSE NoUsage IN
    [n \in (DOMAIN usage) \cup {provider} |->
        IF n = provider
        THEN [input  |-> u.input + input_tokens,
              output |-> u.output + output_tokens,
              total  |-> u.total + (input_tokens + output_tokens)]
        ELSE usage[n]]

EmptyUsage == [n \in {} |-> NoUsage]

\* --------------------------------------------------------------- AIProvider
estimate_tokens(text) == Len(text) \div 4

OutputTokensPerSuggestion(p) == IF p = "gemini" THEN 20 ELSE 15

RECURSIVE CleanLines(_)
CleanLines(ls) ==
    IF ls = <<>> THEN <<>>
    ELSE IF Head(ls).len > 10 THEN <<Head(ls).text>> \o CleanLines(Tail(ls))
    ELSE CleanLines(Tail(ls))

FirstFive(s) == SubSeq(s, 1, IF Len(s) < 5 THEN Len(s) ELSE 5)

parse_response(o) == IF o.has_fields THEN FirstFive(CleanLines(o.lines)) ELSE <<>>

\* the inner coroutine of generate_suggestions once its HTTP call has ended
call_provider(o) ==
    IF o.kind = "timeout" THEN [exc |-> "TimeoutException", value |-> <<>>]
    ELSE IF o.kind = "transport_error" THEN [exc |-> "ConnectError", value |-> <<>>]
    ELSE IF o.status # 200 THEN [exc |-> "ProviderUnavailable", value |-> <<>>]
    ELSE IF ~o.is_json THEN [exc |-> "JSONDecodeError", value |-> <<>>]
    ELSE [exc |-> "none", value |-> parse_response(o)]

\* ------------------------------------------------------- AIProviderManager
\* truthiness of an API key: None and the empty string are false
IsSet(key) == key \notin {"None", ""}

\* _initialize_providers installing the mock next to the real providers
initialize_providers_always_mock(s) ==
    {p \in RealProviders : IsSet(s[p])} \cup {"mock"}

initialize_providers(s) ==
    LET real == {p \in RealProviders : IsSet(s[p])} IN
    IF real = {} THEN {"mock"} ELSE real

MockBreaker == [failure_count |-> 0, last_failure_time |-> "None", status |-> CLOSED]

MockSuggestions ==
    << "Consider adding type hints for better code clarity",
       "Add docstrings to document function behavior",
       "Consider breaking down complex functions into smaller ones" >>

\* the preference order with the first two providers exchanged
provider_order_swapped == <<"huggingface", "gemini", "openai", "mock">>

provider_order == <<"gemini", "huggingface", "openai", "mock">>

IsBlank(c) == \A i \in 1..Len(c) : c[i] \in Whitespace

Entry(p, k, v) == [provider |-> p, kind |-> k, value |-> v]

\* the refusal raised inside the try block, so that on_failure sees it
reject_reported(b, t) == on_failure(b, "ProviderUnavailable", t)

\* execute_with_circuit_breaker when can_execute() is false: the raise precedes
\* the try block, so the breaker is not told
reject(b, t) == b

\* execute_with_circuit_breaker once the awaited call has ended in res
execute_completes(b, res, t) ==
    IF res.exc = "none" THEN on_success(b)
    ELSE IF IsException(res.exc) THEN on_failure(b, res.exc, t)
    ELSE b

\* what generate_suggestions raises when execute_with_circuit_breaker raised exc
generate_raises(exc) == IF IsException(exc) THEN "ProviderUnavailable" ELSE exc

\* an except clause that names one exception class only
manager_catches_value_error(exc) == exc = "ValueError"

\* the except clause in the loop of get_suggestions
manager_catches(exc) == IsException(exc)

\* the loop of get_suggestions from provider_order[k] on, run until a provider's
\* HTTP call suspends the task or get_suggestions ends
RECURSIVE RunProviders(_, _, _, _)
RunProviders(k, b, lg, t) ==
    IF k > Len(provider_order)
    THEN [pc |-> "returned", pos |-> 0, cb |-> b, log |-> lg, result |-> <<>>, error |-> "none"]
    ELSE LET p == provider_order[k] IN
         IF p \notin providers THEN RunProviders(k + 1, b, lg, t)
         ELSE IF p = "mock"
         THEN [pc |-> "returned", pos |-> 0, cb |-> b,
               log |-> Append(lg, Entry(p, "ok", MockSuggestions)),
               result |-> MockSuggestions, error |-> "none"]
         ELSE LET c == can_execute(b[p], t) IN
              IF c.ok
              THEN [pc |-> "calling", pos |-> k, cb |-> [b EXCEPT ![p] = c.b],
                    log |-> lg, result |-> <<>>, error |-> "none"]
              ELSE LET b1 == [b EXCEPT ![p] = reject(c.b, t)]
                       e  == generate_raises("ProviderUnavailable")
                       lg1 == Append(lg, Entry(p, "refused", <<>>))
                   IN IF manager_catches(e)
                      THEN RunProviders(k + 1, b1, lg1, t)
                      ELSE [pc |-> "raised", pos |-> 0, cb |-> b1, log |-> lg1,
                            result |-> <<>>, error |-> e]

\* the rest of get_suggestions after the call of provider_order[k] has ended in res
AfterCall(k, b, lg, res, t) ==
    LET p  == provider_order[k]
        b1 == [b EXCEPT ![p] = execute_completes(b[p], res, t)]
    IN
    IF res.exc = "none"
    THEN LET lg1 == Append(lg, Entry(p, "ok", res.value)) IN
         IF res.value # <<>>
         THEN [pc |-> "returned", pos |-> 0, cb |-> b1, log |-> lg1,
               result |-> res.value, error |-> "none"]
         ELSE RunProviders(k + 1, b1, lg1, t)
    ELSE LET e   == generate_raises(res.exc)
             lg1 == Append(lg, Entry(p, res.exc, <<>>))
         IN IF manager_catches(e)
            THEN RunProviders(k + 1, b1, lg1, t)
            ELSE [pc |-> "raised", pos |-> 0, cb |-> b1, log |-> lg1,
                  result |-> <<>>, error |-> e]

\* record_usage in a finally clause: whatever the call ended in
UsageAfterCall_always(k, usage, c, res) ==
    record_usage(usage, provider_order[k], estimate_tokens(c),
                 Len(res.value) * OutputTokensPerSuggestion(provider_order[k]))

\* the usage dict of provider_order[k]'s tracker after its call has ended in res
UsageAfterCall(k, usage, c, res) ==
    LET p == provider_order[k] IN
    IF res.exc = "none"
    THEN record_usage(usage, p, estimate_tokens(c),
                      Len(res.value) * OutputTokensPerSuggestion(p))
    ELSE usage

Active(r) == pc[r] = "calling"

TypeOK ==
    /\ providers \subseteq ProviderNames
    /\ now \in 0..MaxTime
    /\ pc \in [Reqs -> {"idle", "calling", "returned", "raised"}]
    /\ started \in 0..(MaxStarted + 1)

\* ---------------------------------------------------------------- actions
\* no analyze_code call has been made
NoCall ==
    [pc |-> "idle", code |-> NoSnippet, language |-> "", show_all |-> FALSE,
     analysis_type |-> "", complexity |-> -1, raised_in |-> "none",
     looked_up |-> FALSE, evicted |-> FALSE, hit |-> FALSE, invoked |-> FALSE, wrote |-> FALSE,
     swept |-> -1, result |-> <<>>, error |-> "none"]

\* AIAnalyzer.__init__
InitAnalyzer ==
    /\ cache = <<>>
    /\ last_cache_cleanup = 0
    /\ clock = 0
    /\ call = NoCall
    /\ analyzed = 0

\* no tree has been analysed
InitGraph ==
    /\ root = NoRoot
    /\ graph = NoGraph
    /\ top_n = default_top_n
    /\ plan = NoPlan

\* AIProviderManager.__init__
InitManager ==
    /\ settings \in [{"gemini", "huggingface", "openai"} -> KeyValues]
    /\ settings["openai"] # ""
    /\ providers = initialize_providers(settings)
    /\ cb = [p \in providers |-> IF p = "mock" THEN MockBreaker ELSE NewBreaker]
    /\ tracker = [p \in providers |-> EmptyUsage]
    /\ now = recovery_timeout
    /\ pc = [r \in Reqs |-> "idle"]
    /\ code = [r \in Reqs |-> <<>>]
    /\ pos = [r \in Reqs |-> 0]
    /\ log = [r \in Reqs |-> <<>>]
    /\ result = [r \in Reqs |-> <<>>]
    /\ error = [r \in Reqs |-> "none"]
    /\ started = 0
    /\ streak = [p \in providers |-> 0]

\* compute_complexity has not been called
InitComplexity == measurement = NoMeasure

\* RateLimitMiddleware.__init__ in an application with the default settings
InitLimiter ==
    /\ limiter = DefaultConfig
    /\ hits = <<>>
    /\ wall = 0
    /\ sent = <<>>
    /\ response = NoResponse

Init ==
    /\ InitManager
    /\ InitAnalyzer
    /\ InitGraph
    /\ InitComplexity
    /\ InitLimiter

\* the record of a call that has ended is kept until the next call begins

\* a task calls get_suggestions(c, lang, m)
GetSuggestions(r, c, m) ==
    /\ ~Active(r)
    /\ \A q \in Reqs : q < r => Active(q)
    /\ started < MaxStarted
    /\ started' = started + 1
    /\ LET run == IF IsBlank(c)
                  THEN [pc |-> "raised", pos |-> 0, cb |-> cb, log |-> <<>>,
                        result |-> <<>>, error |-> "ValueError"]
                  ELSE RunProviders(1, cb, <<>>, now)
           Set(f, v, idle) == [q \in Reqs |-> IF q = r THEN v
                                              ELSE IF Active(q) THEN f[q] ELSE idle]
       IN
       /\ pc' = Set(pc, run.pc, "idle")
       /\ code' = Set(code, c, <<>>)
       /\ pos' = Set(pos, run.pos, 0)
       /\ log' = Set(log, run.log, <<>>)
       /\ result' = Set(result, run.result, <<>>)
       /\ error' = Set(error, run.error, "none")
       /\ cb' = run.cb
    /\ UNCHANGED <<settings, providers, tracker, now, streak>>
    /\ UNCHANGED <<analyzer_vars, graph_vars, complexity_vars, limiter_vars>>

\* the HTTP call of the provider a task is waiting for ends with outcome o
CallCompletes(r, o) ==
    /\ Active(r)
    /\ LET res == call_provider(o)
           run == AfterCall(pos[r], cb, log[r], res, now)
           p   == provider_order[pos[r]]
       IN
       /\ \A n \in DOMAIN UsageAfterCall(pos[r], tracker[p], code[r], res) :
             UsageAfterCall(pos[r], tracker[p], code[r], res)[n].total <= MaxTokens
       /\ tracker' = [tracker EXCEPT ![p] = UsageAfterCall(pos[r], tracker[p], code[r], res)]
       /\ pc' = [pc EXCEPT ![r] = run.pc]
       /\ pos' = [pos EXCEPT ![r] = run.pos]
       /\ log' = [log EXCEPT ![r] = run.log]
       /\ result' = [result EXCEPT ![r] = run.result]
       /\ error' = [error EXCEPT ![r] = run.error]
       /\ cb' = run.cb
       /\ streak' = [streak EXCEPT ![p] = IF res.exc = "none" THEN 0
                                          ELSE IF res.exc = "ProviderUnavailable" THEN @ + 1
                                          ELSE @]
    /\ UNCHANGED <<settings, providers, now, code, started>>
    /\ UNCHANGED <<analyzer_vars, graph_vars, complexity_vars, limiter_vars>>

\* the task is cancelled while its HTTP call is outstanding: CancelledError is
\* raised at the await
Cancel(r) ==
    /\ Active(r)
    /\ LET res == [exc |-> "CancelledError", value |-> <<>>]
           run == AfterCall(pos[r], cb, log[r], res, now)
           p   == provider_order[pos[r]]
       IN
       /\ tracker' = [tracker EXCEPT ![p] = UsageAfterCall(pos[r], tracker[p], code[r], res)]
       /\ pc' = [pc EXCEPT ![r] = run.pc]
       /\ pos' = [pos EXCEPT ![r] = run.pos]
       /\ log' = [log EXCEPT ![r] = run.log]
       /\ result' = [result EXCEPT ![r] = run.result]
       /\ error' = [error EXCEPT ![r] = run.error]
       /\ cb' = run.cb
    /\ UNCHANGED <<settings, providers, now, code, started, streak>>
    /\ UNCHANGED <<analyzer_vars, graph_vars, complexity_vars, limiter_vars>>

\* d seconds pass
Tick(d) ==
    /\ now + d <= MaxTime
    /\ now' = now + d
    /\ UNCHANGED <<settings, providers, cb, tracker, pc, code, pos, log, result, error,
                   started, streak>>
    /\ UNCHANGED <<analyzer_vars, graph_vars, complexity_vars, limiter_vars>>

\* one task at a time, any configuration
Next ==
    \/ \E c \in Codes, m \in RetryValues : GetSuggestions(1, c, m)
    \/ \E o \in SeqOutcomes : CallCompletes(1, o)
    \/ Cancel(1)
    \/ Tick(recovery_timeout)

Spec == Init /\ [][Next]_vars

\* concurrent tasks against a manager whose only provider is Gemini
InitGemini ==
    /\ Init
    /\ settings = [gemini |-> "key", huggingface |-> "None", openai |-> "None"]

NextConc ==
    \/ \E r \in Reqs, c \in Codes, m \in RetryValues : GetSuggestions(r, c, m)
    \/ \E r \in Reqs, o \in NetOutcomes : CallCompletes(r, o)
    \/ \E r \in Reqs : Cancel(r)
    \/ \E d \in TickSteps : Tick(d)

SpecConc == InitGemini /\ [][NextConc]_vars

\* get_provider_status()[p]
get_provider_status(p) ==
    [enabled                |-> TRUE,
     circuit_breaker_status |-> cb[p].status,
     failure_count          |-> cb[p].failure_count,
     last_failure           |-> cb[p].last_failure_time,
     token_usage            |-> IF p \in DOMAIN tracker[p] THEN tracker[p][p] ELSE <<>>]

\* ------------------------------------------------ what a step did to a task
\* task r began a get_suggestions call in this step
Began(r) == started' = started + 1 /\ ~Active(r) /\ \A q \in Reqs : q < r => Active(q)

\* the outstanding call of task r ended in this step
Resumed(r) == Active(r) /\ (pc'[r] # "calling" \/ pos'[r] # pos[r])

\* the log entries task r wrote in this step
NewEntries(r) ==
    IF Began(r) THEN log'[r]
    ELSE IF Resumed(r) THEN SubSeq(log'[r], Len(log[r]) + 1, Len(log'[r]))
    ELSE <<>>

\* in this step the HTTP call of provider p was started for task r
Admitted(r, p) ==
    /\ Began(r) \/ Resumed(r)
    /\ pc'[r] = "calling"
    /\ provider_order[pos'[r]] = p

\* in this step generate_suggestions of provider p was refused by its breaker for task r
Refused(r, p) ==
    \E i \in 1..Len(NewEntries(r)) :
        NewEntries(r)[i].provider = p /\ NewEntries(r)[i].kind = "refused"

\* in this step the call of provider p for task r ended with an entry of kind k
Ended(r, p, k) ==
    /\ Resumed(r)
    /\ provider_order[pos[r]] = p
    /\ NewEntries(r)[1].kind = k

Real == providers \cap RealProviders

UpstreamFailures == {"ProviderUnavailable", "TimeoutException", "ConnectError", "JSONDecodeError"}

----------------------------------------------------------------------------
\* C1: from CLOSED, the breaker is OPEN right after the failure_threshold-th
\* ProviderUnavailable failure reported since the last success and not after an
\* earlier one; and whenever it is OPEN and less than recovery_timeout has passed
\* since last_failure_time, can_execute() returns false and changes nothing.
C1_TripStep ==
    \A p \in Real :
        streak'[p] = streak[p] + 1 =>
            (cb'[p].status = OPEN <=> streak'[p] >= failure_threshold)

C1_Blocked ==
    \A p \in Real :
        (cb[p].status = OPEN /\ now - cb[p].last_failure_time < recovery_timeout)
            => can_execute(cb[p], now) = [ok |-> FALSE, b |-> cb[p]]

C1_TripAndBlock == [][C1_TripStep]_vars /\ []C1_Blocked

C1_Witness ==
    \E p \in Real :
        /\ streak[p] = failure_threshold
        /\ cb[p].status = OPEN
        /\ now - cb[p].last_failure_time < recovery_timeout
        /\ now > cb[p].last_failure_time
        /\ \E r \in Reqs : log[r] = <<Entry(p, "refused", <<>>)>>

\* C2: while a breaker stays HALF_OPEN no call is admitted besides the one whose
\* can_execute() made the OPEN -> HALF_OPEN transition.
C2_SingleProbe ==
    [][\A p \in Real :
          (cb[p].status = HALF_OPEN /\ cb'[p].status = HALF_OPEN)
              => ~ \E r \in Reqs : Admitted(r, p)]_vars

\* C3: the only step out of OPEN is OPEN -> HALF_OPEN, taken once recovery_timeout
\* has passed since last_failure_time; never OPEN -> CLOSED.
C3_OpenPersists ==
    [][\A p \in Real :
          cb[p].status = OPEN =>
              \/ cb'[p].status = OPEN
              \/ /\ cb'[p].status = HALF_OPEN
                 /\ now - cb[p].last_failure_time >= recovery_timeout]_vars

\* C4: a call that ends in a non-2xx response, a timeout, a transport error or an
\* undecodable payload adds 1 to the provider's failure_count and records
\* last_failure_time.
C4_EveryFailureCounts ==
    [][\A r \in Reqs : \A p \in Real : \A k \in UpstreamFailures :
          Ended(r, p, k) =>
              /\ cb'[p].failure_count = cb[p].failure_count + 1
              /\ cb'[p].last_failure_time = now]_vars

\* C5: when the first provider of a call fails and the second is then called, the
\* first provider's failure_count has risen by exactly 1; it is still that when
\* the second provider's success ends the call, and the call returns the second
\* provider's output.
C5_FirstFails(r) ==
    /\ Began(r) \/ Resumed(r)
    /\ Len(log'[r]) = 1
    /\ log'[r][1].kind \in UpstreamFailures \cup {"refused"}
    /\ pc'[r] = "calling"

C5_SecondSucceeds(r) ==
    /\ Resumed(r)
    /\ Len(log[r]) = 1
    /\ log[r][1].kind \in UpstreamFailures \cup {"refused"}
    /\ Len(log'[r]) = 2
    /\ log'[r][2].kind = "ok"
    /\ log'[r][2].value # <<>>

C5_Fallback ==
    [][\A r \in Reqs :
          /\ C5_FirstFails(r) =>
                cb'[log'[r][1].provider].failure_count
                    = cb[log'[r][1].provider].failure_count + 1
          /\ C5_SecondSucceeds(r) =>
                /\ pc'[r] = "returned"
                /\ result'[r] = log'[r][2].value
                /\ cb'[log[r][1].provider].failure_count
                    = cb[log[r][1].provider].failure_count]_vars

\* C6: a get_suggestions call with non-blank code that is not cancelled never
\* raises, whatever its providers do, and it returns the empty list exactly when
\* no provider it invoked returned a non-empty list.
C6_NeverFatal ==
    \A r \in Reqs :
        /\ (pc[r] = "raised" /\ ~IsBlank(code[r])) => error[r] = "CancelledError"
        /\ pc[r] = "returned" =>
              (result[r] = <<>> <=>
                  ~ \E i \in 1..Len(log[r]) :
                        log[r][i].kind = "ok" /\ log[r][i].value # <<>>)

C6_Witness ==
    \E r \in Reqs :
        /\ pc[r] = "returned"
        /\ result[r] = <<>>
        /\ Len(log[r]) = 2
        /\ log[r][1].kind = "refused"
        /\ log[r][2].kind \in UpstreamFailures

\* C7: a call invokes the installed providers in the order gemini, huggingface,
\* openai, mock, each at most once and none after the first that returns a
\* non-empty list, which is the result.
C7_Order == <<"gemini", "huggingface", "openai", "mock">>

C7_Rank(p) == CHOOSE k \in 1..Len(C7_Order) : C7_Order[k] = p

C7_OrderedFirstNonEmpty ==
    \A r \in Reqs :
        LET lg == log[r]
            invoked == {lg[i].provider : i \in 1..Len(lg)}
            waiting == IF pc[r] = "calling" THEN {provider_order[pos[r]]} ELSE {}
        IN
        /\ \A i, j \in 1..Len(lg) : i < j => C7_Rank(lg[i].provider) < C7_Rank(lg[j].provider)
        /\ \A i \in 1..Len(lg) :
              (lg[i].kind = "ok" /\ lg[i].value # <<>>)
                  => (i = Len(lg) /\ pc[r] = "returned" /\ result[r] = lg[i].value)
        /\ \A p \in waiting : \A i \in 1..Len(lg) : C7_Rank(lg[i].provider) < C7_Rank(p)
        /\ \A p \in invoked \cup waiting : \A q \in providers :
              C7_Rank(q) < C7_Rank(p) => q \in invoked
        /\ (pc[r] = "returned" /\ result[r] = <<>>) => invoked = providers

C7_Witness ==
    \E r \in Reqs :
        /\ pc[r] = "returned"
        /\ Len(log[r]) = 2
        /\ log[r][1] = Entry("gemini", "ok", <<>>)
        /\ log[r][2].provider = "huggingface"
        /\ result[r] = log[r][2].value
        /\ result[r] # <<>>

\* C8: the provider table is never empty; the mock is installed exactly when
\* neither the gemini nor the huggingface key is set; its reported breaker state
\* stays closed with failure_count 0; a manager holding only the mock returns a
\* non-empty list for every non-blank code.
C8_MockFallback ==
    /\ providers # {}
    /\ "mock" \in providers <=> (settings["gemini"] # "key" /\ settings["huggingface"] # "key")
    /\ "mock" \in providers =>
          /\ get_provider_status("mock").circuit_breaker_status = "closed"
          /\ get_provider_status("mock").failure_count = 0
    /\ providers = {"mock"} =>
          \A r \in Reqs :
              (pc[r] # "idle" /\ ~IsBlank(code[r])) => (pc[r] = "returned" /\ result[r] # <<>>)

C8_Witness ==
    /\ providers = {"mock"}
    /\ settings["openai"] = "key"
    /\ settings["gemini"] = ""
    /\ started > 2
    /\ \E r \in Reqs : pc[r] = "returned" /\ result[r] = MockSuggestions

\* C9: a call that the breaker refuses leaves the breaker and the token counters
\* of that provider as they were and starts no HTTP call.
C9_RefusalHasNoEffect ==
    [][\A r \in Reqs : \A p \in Real :
          Refused(r, p) =>
              /\ ~can_execute(cb[p], now).ok
              /\ cb'[p] = cb[p]
              /\ tracker'[p] = tracker[p]
              /\ ~Admitted(r, p)]_vars

C9_Witness ==
    \E r \in Reqs :
        /\ Len(log[r]) = 2
        /\ log[r][1] = Entry("gemini", "refused", <<>>)
        /\ log[r][2].provider = "huggingface"
        /\ log[r][2].kind = "ok"
        /\ cb["gemini"].status = OPEN
        /\ "gemini" \in DOMAIN tracker["gemini"]

\* C10: every provider's counters satisfy total = input + output and never
\* decrease; they change only in a step in which a call of that provider
\* succeeds, by one record_usage of that call's estimates; a failed, refused or
\* cancelled call leaves them as they were.
C10_Usage(u, p) == IF p \in DOMAIN u THEN u[p] ELSE [input |-> 0, output |-> 0, total |-> 0]

C10_Sum ==
    \A p \in providers : \A n \in DOMAIN tracker[p] :
        tracker[p][n].total = tracker[p][n].input + tracker[p][n].output

C10_Step ==
    \A p \in providers :
        LET u == C10_Usage(tracker[p], p)
            v == C10_Usage(tracker'[p], p)
        IN
        /\ v.input >= u.input /\ v.output >= u.output /\ v.total >= u.total
        /\ DOMAIN tracker'[p] \subseteq {p}
        /\ tracker'[p] # tracker[p] => \E r \in Reqs : Ended(r, p, "ok")
        /\ \A r \in Reqs :
              Ended(r, p, "ok") =>
                  /\ v.input = u.input + (Len(code[r]) \div 4)
                  /\ v.output = u.output
                        + Len(NewEntries(r)[1].value) * (IF p = "gemini" THEN 20 ELSE 15)
                  /\ v.total = u.total + (v.input - u.input) + (v.output - u.output)

C10_TokenAccounting == []C10_Sum /\ [][C10_Step]_vars

C10_Witness ==
    /\ "huggingface" \in providers
    /\ "gemini" \in providers
    /\ C10_Usage(tracker["huggingface"], "huggingface") = [input |-> 1, output |-> 30, total |-> 31]
    /\ C10_Usage(tracker["gemini"], "gemini").total = 1
    /\ \E r \in Reqs : error[r] = "CancelledError"

\* ================================================================ AIAnalyzer
\* Model of backend/app/services/ai_analyzer.py.  analyze_code suspends only
\* at its call of the provider manager, so a call is two steps: everything
\* up to that await, and everything after it.
\* ------------------------------------------------------------------ bounds
MaxAnalyses == 2      \* analyze_code calls made in one behaviour
MaxClock    == 5400   \* the analyzer's clock stops advancing here

\* ------------------------------------------------------- program constants
cache_ttl == 3600

cleanup_interval == 300

SupportedLanguages == {"python", "javascript", "java", "typescript", "go", "rust"}

\* ------------------------------------------------------------------ inputs
Snippet(u, n) == [unit |-> u, times |-> n]

Snippets ==
    { Snippet(<<>>, 0),
      Snippet(<<" ", "\n">>, 2),
      Snippet(<<"x">>, 1),
      Snippet(<<"def ", "if ", "import *", "var ", "\n">>, 51) }

Languages == {"python", "javascript", "cobol"}

AnalysisTypes == {"general"}

ClockSteps == {1800}

\* a suggestion string: optional surrounding blanks, a list marker, a body
Str(pad, pre, b) == [padded |-> pad, prefix |-> pre, body |-> b]

BodyLen(b) ==
    CASE b = "ok" -> 2
      [] b = "Fix typo" -> 8
      [] b = "Simplify the loop" -> 17
      [] b = "Rename variable x" -> 17
      [] OTHER -> 40

PrefixLen(pre) == IF pre = "" THEN 0 ELSE IF pre \in {"- ", "o ", "* "} THEN 2 ELSE 3

StrLen(s) == (IF s.padded THEN 2 ELSE 0) + PrefixLen(s.prefix) + BodyLen(s.body)

SuggestionLists ==
    { <<>>,
      <<Str(FALSE, "", "ok")>>,
      <<Str(TRUE, "- ", "Simplify the loop"), Str(FALSE, "- ", "Fix typo"),
        Str(FALSE, "4. ", "Rename variable x")>>,
      <<Str(FALSE, "1. ", "Simplify the loop"), Str(FALSE, "2. ", "Simplify the loop"),
        Str(FALSE, "3. ", "Simplify the loop"), Str(FALSE, "* ", "Simplify the loop"),
        Str(FALSE, "", "Simplify the loop"), Str(TRUE, "", "Simplify the loop")>> }

\* how the awaited ai_manager.get_suggestions call can end
ManagerOutcomes ==
    { [exc |-> "none", value |-> l] : l \in SuggestionLists }
    \cup { [exc |-> e, value |-> <<>>] : e \in {"RuntimeError", "CancelledError"} }

\* the steps of the pipeline that can be made to raise
StepsBeforeAwait == {"parse_code", "compute_complexity", "generate_analysis_context"}

StepsAfterAwait == {"process_suggestions", "cache_result", "cleanup_cache"}

\* ---------------------------------------------------------- text operations
Count(u, s) == Cardinality({i \in 1..Len(u) : u[i] = s})

\* not code.strip()
StripIsEmpty(c) == c.times = 0 \/ IsBlank(c.unit)

\* s in code
Contains(c, s) == c.times > 0 /\ \E i \in 1..Len(c.unit) : c.unit[i] = s

\* len(code.splitlines())
SplitLinesLen(c) ==
    IF c.times = 0 \/ Len(c.unit) = 0 THEN 0
    ELSE c.times * Count(c.unit, "\n") + (IF c.unit[Len(c.unit)] = "\n" THEN 0 ELSE 1)

\* -------------------------------------------------------- compute_complexity
\* Source text is a sequence of tokens; a token is a piece of one line, or a
\* line break.  What the analyzer can tell about a token is tabulated here.
JsTestSource == "function foo(x){ if(x){ return 1; } else { return 0; } }"

TsTestSource == "function foo(x: number){ if(x){ return 1; } else { return 0; } }"

\* language.lower()
Lower(language) ==
    CASE language = "Python" -> "python"
      [] language = "TS" -> "ts"
      [] language = "Java" -> "java"
      [] OTHER -> language

\* sum(lower.count(k) for k in keywords) for the text of one token: the
\* keywords are counted wherever they occur, so import holds an or and elif
\* holds an if besides the elif
KeywordHits(tok) ==
    CASE tok \in {"if ", "if x:", "if (x) {", "// if (x)", "# if x", "import *", "import os",
                  "x = a and b", JsTestSource, TsTestSource} -> 1
      [] tok = "elif y:" -> 2
      [] OTHER -> 0

\* the nodes of a decision type in the tree the Python grammar gives the token
PyDecisionNodes(tok) == IF tok \in {"if ", "if x:", "elif y:"} THEN 1 ELSE 0

\* lower.count(" and ") + lower.count(" or ")
PyBooleanWords(tok) == IF tok = "x = a and b" THEN 1 ELSE 0

\* the nodes of a decision type in the tree the JavaScript grammar gives the
\* token; the type annotation of TsTestSource is an error node in its
\* parameter list
JsDecisionNodes(tok) == IF tok \in {"if ", "if (x) {", JsTestSource, TsTestSource} THEN 1 ELSE 0

\* the && and || inside the token's logical_expression nodes
JsLogicalOperators(tok) == IF tok = "return a && b;" THEN 1 ELSE 0

\* s.startswith(prefix)
StartsWith(tok, prefix) ==
    \/ prefix = "//" /\ tok = "// if (x)"
    \/ prefix = "#" /\ tok \in {"# if x", "#[inline]"}

RECURSIVE Sum(_, _)
Sum(counts, i) == IF i > Len(counts) THEN 0 ELSE counts[i] + Sum(counts, i + 1)

\* not source
IsEmptyText(c) == c.times = 0 \/ c.unit = <<>>

\* _complexity_fallback without the baseline of 1
complexity_fallback_no_baseline(c) ==
    IF IsEmptyText(c) THEN 0
    ELSE c.times * Sum([i \in 1..Len(c.unit) |-> KeywordHits(c.unit[i])], 1)

complexity_fallback(c) ==
    IF IsEmptyText(c) THEN 0
    ELSE 1 + c.times * Sum([i \in 1..Len(c.unit) |-> KeywordHits(c.unit[i])], 1)

\* parser is "ok", "unavailable" (_get_parser returns None) or "raises"
\* (parser.parse raises)
complexity_python_ts(parser, c) ==
    IF parser # "ok" THEN complexity_fallback(c)
    ELSE 1 + c.times * Sum([i \in 1..Len(c.unit) |->
                               PyDecisionNodes(c.unit[i]) + PyBooleanWords(c.unit[i])], 1)

complexity_js_ts_ts(parser, c) ==
    IF parser # "ok" THEN complexity_fallback(c)
    ELSE 1 + c.times * Sum([i \in 1..Len(c.unit) |->
                               JsDecisionNodes(c.unit[i]) + JsLogicalOperators(c.unit[i])], 1)

\* prefixes.get(lang, "#")
CommentPrefix(lang) ==
    IF lang \in {"javascript", "js", "typescript", "ts", "java"} THEN "//" ELSE "#"

\* what a token makes of the line it is on: the first token that is not a
\* blank decides
LineKind(kind, tok, prefix) ==
    IF kind # "blank" THEN kind
    ELSE IF tok = " " THEN "blank"
    ELSE IF StartsWith(tok, prefix) THEN "comment"
    ELSE "code"

\* the lines that are neither blank nor a comment (lines 153-159)
RECURSIVE CodeLines(_, _, _, _, _)
CodeLines(c, prefix, k, i, kind) ==
    IF k > c.times THEN (IF kind = "code" THEN 1 ELSE 0)
    ELSE IF i > Len(c.unit) THEN CodeLines(c, prefix, k + 1, 1, kind)
    ELSE IF c.unit[i] = "\n"
    THEN (IF kind = "code" THEN 1 ELSE 0) + CodeLines(c, prefix, k, i + 1, "blank")
    ELSE CodeLines(c, prefix, k, i + 1, LineKind(kind, c.unit[i], prefix))

\* compute_complexity once language.lower() is known
ComplexityFor(parser, lang, c) ==
    IF lang = "python" THEN complexity_python_ts(parser, c)
    ELSE IF lang \in {"javascript", "js", "typescript", "ts"} THEN complexity_js_ts_ts(parser, c)
    ELSE IF IsEmptyText(c) THEN 0
    ELSE CodeLines(c, CommentPrefix(lang), 1, 1, "blank")

\* compute_complexity(language, content) in a process whose tree-sitter
\* parsers are in the state parser
compute_complexity_with(parser, language, c) == ComplexityFor(parser, Lower(language), c)

\* compute_complexity(language, code) where the parsers load and parse
compute_complexity(language, c) == compute_complexity_with("ok", language, c)

\* ------------------------------------------------------------------- cache
generate_cache_key(c, language, show_all, analysis_type) ==
    <<language, analysis_type, show_all, c>>

Without(ch, keys) == [k \in DOMAIN ch \ keys |-> ch[k]]

\* _get_cached_result accepting an entry whose age equals the TTL
get_cached_result_inclusive(ch, key, t) ==
    IF key \in DOMAIN ch THEN
        IF t - ch[key].timestamp <= cache_ttl
        THEN [is_none |-> FALSE, value |-> ch[key].suggestions, cache |-> ch]
        ELSE [is_none |-> TRUE, value |-> <<>>, cache |-> Without(ch, {key})]
    ELSE [is_none |-> TRUE, value |-> <<>>, cache |-> ch]

\* _get_cached_result: what it returns and the cache it leaves
get_cached_result(ch, key, t) ==
    IF key \in DOMAIN ch THEN
        IF t - ch[key].timestamp < cache_ttl
        THEN [is_none |-> FALSE, value |-> ch[key].suggestions, cache |-> ch]
        ELSE [is_none |-> TRUE, value |-> <<>>, cache |-> Without(ch, {key})]
    ELSE [is_none |-> TRUE, value |-> <<>>, cache |-> ch]

\* the truth value of what _get_cached_result returned
Truthy(r) == ~r.is_none /\ r.value # <<>>

cache_result(ch, key, suggestions, t) ==
    [k \in DOMAIN ch \cup {key} |->
        IF k = key THEN [suggestions |-> suggestions, timestamp |-> t] ELSE ch[k]]

\* len(expired_keys)
Expired(ch, t) == {k \in DOMAIN ch : t - ch[k].timestamp > cache_ttl}

\* _cleanup_cache running as soon as the interval has passed
cleanup_cache_at_interval(ch, last, t) ==
    IF t - last >= cleanup_interval
    THEN [cache |-> Without(ch, Expired(ch, t)), last |-> t,
          removed |-> Cardinality(Expired(ch, t))]
    ELSE [cache |-> ch, last |-> last, removed |-> -1]

\* _cleanup_cache: the cache and last_cache_cleanup it leaves, and the number
\* of entries it reports as removed (-1: it did not run)
cleanup_cache(ch, last, t) ==
    IF t - last > cleanup_interval
    THEN [cache |-> Without(ch, Expired(ch, t)), last |-> t,
          removed |-> Cardinality(Expired(ch, t))]
    ELSE [cache |-> ch, last |-> last, removed |-> -1]

\* ------------------------------------------------------------- suggestions
\* _get_ai_suggestions: the list it hands to the pipeline, or the exception
\* that passes through its except clauses
get_ai_suggestions(o) ==
    IF o.exc = "none" THEN [exc |-> "none", value |-> o.value]
    ELSE IF IsException(o.exc) THEN [exc |-> "none", value |-> <<>>]
    ELSE [exc |-> o.exc, value |-> <<>>]

Prefixes == {"- ", "o ", "* ", "1. ", "2. ", "3. "}   \* "o " stands for the bullet

HighImpactBodies == {"Simplify the loop"}

is_high_impact_suggestion(s, complexity) ==
    s.body \in HighImpactBodies \/ complexity > 7

RECURSIVE ProcessFrom(_, _, _, _, _)
ProcessFrom(suggestions, i, processed, complexity, show_all) ==
    IF i > Len(suggestions) THEN processed
    ELSE
        LET stripped == [suggestions[i] EXCEPT !.padded = FALSE] IN
        IF StrLen(stripped) < 10
        THEN ProcessFrom(suggestions, i + 1, processed, complexity, show_all)
        ELSE
            LET cleaned == IF stripped.prefix \in Prefixes
                           THEN [stripped EXCEPT !.prefix = ""] ELSE stripped
                kept == IF show_all \/ is_high_impact_suggestion(cleaned, complexity)
                        THEN Append(processed, cleaned) ELSE processed
            IN IF Len(kept) >= 5 THEN kept
               ELSE ProcessFrom(suggestions, i + 1, kept, complexity, show_all)

process_suggestions(suggestions, complexity, show_all) ==
    IF suggestions = <<>> THEN <<>>
    ELSE ProcessFrom(suggestions, 1, <<>>, complexity, show_all)

Plain(b) == Str(FALSE, "", b)

When(cond, b) == IF cond THEN <<Plain(b)>> ELSE <<>>

FirstThree(s) == SubSeq(s, 1, IF Len(s) < 3 THEN Len(s) ELSE 3)

get_fallback_suggestions(c, language, complexity) ==
    LET specific ==
            IF language = "python" THEN
                When(complexity > 7, "Consider breaking down complex functions")
                \o When(Contains(c, "def ") /\ ~Contains(c, "class "),
                        "Consider organizing code into classes")
                \o When(Contains(c, "import *"), "Avoid wildcard imports")
            ELSE IF language \in {"javascript", "typescript"} THEN
                When(complexity > 7, "Consider using early returns")
                \o When(Contains(c, "var "), "Use const or let instead of var")
                \o When(Contains(c, "function("), "Consider using arrow functions")
            ELSE IF language = "java" THEN
                When(complexity > 7, "Consider extracting complex logic")
                \o When(Contains(c, "public static void main"),
                        "Consider separating business logic from the main method")
            ELSE <<>>
        general == specific \o When(SplitLinesLen(c) > 50, "Consider breaking large files")
    IN FirstThree(IF general = <<>> THEN <<Plain("Review code for potential improvements")>>
                  ELSE general)

\* ----------------------------------------------------------------- actions
provider_vars == <<settings, providers, cb, tracker, now, pc, code, pos, log, result,
                   error, started, streak>>

\* the local variable complexity of analyze_code before line 57 assigns it
Unbound == -1

\* the except clause of analyze_code (lines 80-83); step is what raised.
\* Line 83 reads the local complexity.
except_clause(cl, step) ==
    IF cl.complexity = Unbound
    THEN [cl EXCEPT !.pc = "raised", !.error = "UnboundLocalError", !.raised_in = step]
    ELSE [cl EXCEPT !.pc = "returned", !.raised_in = step,
                    !.result = get_fallback_suggestions(cl.code, cl.language, cl.complexity)]

\* analyze_code(c, language, show_all, analysis_type) up to its await of the
\* provider manager; f is the step that raises, if any
AnalyzeCode(c, language, show_all, analysis_type, f) ==
    /\ call.pc # "awaiting"
    /\ analyzed < MaxAnalyses
    /\ analyzed' = analyzed + 1
    /\ LET begun  == [NoCall EXCEPT !.code = c, !.language = language,
                                    !.show_all = show_all, !.analysis_type = analysis_type]
           key    == generate_cache_key(c, language, show_all, analysis_type)
           cached == get_cached_result(cache, key, clock)
           looked == [begun EXCEPT !.looked_up = TRUE,
                                   !.evicted = key \in DOMAIN cache \ DOMAIN cached.cache]
           measured == [looked EXCEPT !.complexity = compute_complexity(language, c)]
       IN
       IF StripIsEmpty(c) \/ language \notin SupportedLanguages
       THEN /\ call' = except_clause(begun, "validation")
            /\ cache' = cache
       ELSE /\ cache' = cached.cache
            /\ call' = IF Truthy(cached)
                       THEN [looked EXCEPT !.pc = "returned", !.hit = TRUE,
                                           !.result = cached.value]
                       ELSE IF f \in {"parse_code", "compute_complexity"}
                       THEN except_clause(looked, f)
                       ELSE IF f = "generate_analysis_context"
                       THEN except_clause(measured, f)
                       ELSE [measured EXCEPT !.pc = "awaiting", !.invoked = TRUE]
    /\ UNCHANGED <<last_cache_cleanup, clock>>
    /\ UNCHANGED <<provider_vars, graph_vars, complexity_vars, limiter_vars>>

\* the awaited provider manager call ends with outcome o and analyze_code runs
\* to its end; f is the step that raises, if any
ManagerReturns(o, f) ==
    /\ call.pc = "awaiting"
    /\ LET got       == get_ai_suggestions(o)
           processed == process_suggestions(got.value, call.complexity, call.show_all)
           key       == generate_cache_key(call.code, call.language, call.show_all,
                                           call.analysis_type)
           written   == cache_result(cache, key, processed, clock)
           swept     == cleanup_cache(written, last_cache_cleanup, clock)
       IN
       IF got.exc # "none"
       THEN /\ call' = [call EXCEPT !.pc = "raised", !.error = got.exc]
            /\ UNCHANGED <<cache, last_cache_cleanup>>
       ELSE IF f \in {"process_suggestions", "cache_result"}
       THEN /\ call' = except_clause(call, f)
            /\ UNCHANGED <<cache, last_cache_cleanup>>
       ELSE IF f = "cleanup_cache"
       THEN /\ call' = except_clause([call EXCEPT !.wrote = TRUE], f)
            /\ cache' = written
            /\ UNCHANGED last_cache_cleanup
       ELSE /\ call' = [call EXCEPT !.pc = "returned", !.wrote = TRUE, !.result = processed,
                                    !.swept = swept.removed]
            /\ cache' = swept.cache
            /\ last_cache_cleanup' = swept.last
    /\ UNCHANGED <<clock, analyzed>>
    /\ UNCHANGED <<provider_vars, graph_vars, complexity_vars, limiter_vars>>

\* d seconds pass on the analyzer's clock
Advance(d) ==
    /\ clock + d <= MaxClock
    /\ clock' = clock + d
    /\ UNCHANGED <<cache, last_cache_cleanup, call, analyzed>>
    /\ UNCHANGED <<provider_vars, graph_vars, complexity_vars, limiter_vars>>

InitAnalysis ==
    /\ Init
    /\ settings = [gemini |-> "None", huggingface |-> "None", openai |-> "None"]

NextAnalysis ==
    \/ \E c \in Snippets, l \in Languages, s \in BOOLEAN, t \in AnalysisTypes,
          f \in StepsBeforeAwait \cup {"none"} : AnalyzeCode(c, l, s, t, f)
    \/ \E o \in ManagerOutcomes, f \in StepsAfterAwait \cup {"none"} : ManagerReturns(o, f)
    \/ \E d \in ClockSteps : Advance(d)

SpecAnalysis == InitAnalysis /\ [][NextAnalysis]_vars

\* calls with valid input at times five minutes apart
SweepSnippets == { Snippet(<<"x">>, 1), Snippet(<<"def ", "if ", "import *", "var ", "\n">>, 51) }

SweepOutcomes == { [exc |-> "none", value |-> <<Str(FALSE, "- ", "Simplify the loop")>>] }

SweepSteps == {cleanup_interval, 1800}

NextSweep ==
    \/ \E c \in SweepSnippets, s \in BOOLEAN : AnalyzeCode(c, "python", s, "general", "none")
    \/ \E o \in SweepOutcomes, f \in {"none", "cleanup_cache"} : ManagerReturns(o, f)
    \/ \E d \in SweepSteps : Advance(d)

SpecSweep == InitAnalysis /\ [][NextSweep]_vars

\* ============================================================== GraphBuilder
\* Model of backend/app/services/graph_builder.py and refactor_planner.py.
\* Function names are numbers.  A qualified name is the sequence of the names
\* of the enclosing functions and of the function; a symbol is the pair of a
\* file stem and a qualified name.  A Python dict is a sequence of key/value
\* entries in insertion order.
\* ------------------------------------------------------------------ bounds
MaxFiles     == 2     \* files below a root
MaxFunctions == 22    \* functions of a generated file

\* ------------------------------------------------------- program constants
hotspot_limit == 20

extract_threshold == 10

decouple_threshold == 6

\* --------------------------------------------------------------- dict model
Item(k, v) == [key |-> k, value |-> v]

Keys(od) == [i \in 1..Len(od) |-> od[i].key]

Values(od) == [i \in 1..Len(od) |-> od[i].value]

Has(od, k) == \E i \in 1..Len(od) : od[i].key = k

Get(od, k, default) ==
    IF Has(od, k) THEN od[CHOOSE i \in 1..Len(od) : od[i].key = k].value ELSE default

\* a list of pairs in place of the dict: every assignment adds an entry
Put_append(od, k, v) == Append(od, Item(k, v))

\* od[k] = v: a key that is present keeps its position
Put(od, k, v) ==
    IF Has(od, k)
    THEN [i \in 1..Len(od) |-> IF od[i].key = k THEN Item(k, v) ELSE od[i]]
    ELSE Append(od, Item(k, v))

\* max(s, default=default)
MaxOf(s, default) ==
    IF s = <<>> THEN default
    ELSE s[CHOOSE i \in 1..Len(s) : \A j \in 1..Len(s) : s[i] >= s[j]]

\* a sort that puts an element before the earlier elements with the same key
Position_before_ties(keys, i) ==
    Cardinality({j \in 1..Len(keys) : keys[j] > keys[i] \/ (keys[j] = keys[i] /\ j > i)}) + 1

\* where a stable descending sort puts element i: behind the elements with a
\* larger key and the earlier elements with the same key
Position(keys, i) ==
    Cardinality({j \in 1..Len(keys) : keys[j] > keys[i] \/ (keys[j] = keys[i] /\ j < i)}) + 1

\* the indices of keys as sorted(..., reverse=True) orders them: by key,
\* largest first, equal keys in their original order
SortedDescending(keys) ==
    [p \in 1..Len(keys) |-> CHOOSE i \in 1..Len(keys) : Position(keys, i) = p]

\* the value of one iteration of a loop is computed before the next begins
Done(v) == v = v

FirstN(s, n) == SubSeq(s, 1, IF Len(s) < n THEN Len(s) ELSE n)

\* ------------------------------------------------------------------ inputs
\* a function definition the visitor meets: its qualified name, the names
\* called in its body, and a body with c - 1 decision points
Def(fq, callees, c) ==
    [fq |-> fq, calls |-> callees,
     src |-> Snippet(<<"def ", "\n">> \o [i \in 1..(c - 1) |-> "if "], 1)]

File(dir, stem, status, defs) == [dir |-> dir, stem |-> stem, status |-> status, defs |-> defs]

DefLists ==
    { <<>>,
      <<Def(<<1>>, {1}, 1)>>,
      <<Def(<<1>>, {2}, 10)>>,
      <<Def(<<1>>, {2}, 1), Def(<<2>>, {}, 2)>>,
      <<Def(<<1>>, {2}, 2), Def(<<1, 2>>, {1, 2}, 1)>>,
      <<Def(<<2>>, {1}, 3), Def(<<2>>, {}, 1)>> }

Files ==
    { File("src", st, "ok", d) : st \in {"a", "b"}, d \in DefLists }
    \cup { File("lib", "a", "ok", d) : d \in DefLists \ {<<>>} }
    \cup { File("src", "a", s, <<Def(<<1>>, {2}, 1), Def(<<2>>, {}, 2)>>) :
             s \in {"unreadable", "syntax_error"} }
    \cup { File(dr, "a", "ok", <<Def(<<2>>, {1}, 3), Def(<<2>>, {}, 1)>>) :
             dr \in {"venv", "site-packages", ".git"} }

\* a file of n functions: function i has complexity 10 when i = 1 (mod 3),
\* 2 when i = 2 (mod 3) and 1 otherwise; in a star every other function calls
\* function 1, in a chain function i calls function i + 1
GeneratedFile(n, shape) ==
    File("src", "m", "ok",
         [i \in 1..n |->
            Def(<<i>>,
                IF shape = "star" THEN (IF i = 1 THEN {} ELSE {1})
                ELSE IF shape = "chain" THEN {i + 1}
                ELSE {},
                IF i % 3 = 1 THEN 10 ELSE IF i % 3 = 2 THEN 2 ELSE 1)])

Shapes == {"star", "chain", "flat"}

Tree(fs) == [exists |-> TRUE, files |-> fs]

FileLists == UNION { [1..n -> Files] : n \in 0..MaxFiles }

Roots ==
    {NoRoot}
    \cup { Tree(fs) : fs \in { l \in FileLists :
               \A i, j \in 1..Len(l) : (l[i].dir = l[j].dir /\ l[i].stem = l[j].stem) => i = j } }
    \cup { Tree(<<GeneratedFile(n, sh)>>) : n \in 1..MaxFunctions, sh \in Shapes }

TopNs == {0, 1, 3, default_top_n, 25}

\* ------------------------------------------------- _py_functions_and_calls
\* max(1, v)
AtLeastOne(v) == IF v < 1 THEN 1 ELSE v

\* visit_FunctionDef for the definitions of a file in the order they are met;
\* acc is the pair of dicts after the definitions before i
RECURSIVE VisitDefs(_, _, _)
VisitDefs(defs, i, acc) ==
    IF ~Done(acc) \/ i > Len(defs) THEN acc
    ELSE VisitDefs(defs, i + 1,
            [calls      |-> Put(acc.calls, defs[i].fq, defs[i].calls),
             complexity |-> Put(acc.complexity, defs[i].fq,
                                AtLeastOne(compute_complexity("python", defs[i].src)))])

\* _py_functions_and_calls reporting what it can make out of a file that
\* ast.parse rejects
py_functions_and_calls_lenient(f) ==
    VisitDefs(f.defs, 1, [calls |-> <<>>, complexity |-> <<>>])

\* a file that ast.parse rejects yields the two empty dicts
py_functions_and_calls(f) ==
    IF f.status = "syntax_error" THEN [calls |-> <<>>, complexity |-> <<>>]
    ELSE VisitDefs(f.defs, 1, [calls |-> <<>>, complexity |-> <<>>])

\* -------------------------------------------------------------- build_graph
ExcludedDirs == {"venv", "site-packages", ".git"}

\* root.rglob("*.py") with the directory filter; a root that does not exist
\* has no files
py_files(r) ==
    IF r.exists THEN SelectSeq(r.files, LAMBDA f : f.dir \notin ExcludedDirs) ELSE <<>>

Sym(f, fq) == <<f.stem, fq>>

\* sym.split(":")[-1].split(".")[-1]
Short(sym) == sym[2][Len(sym[2])]

\* od[sym] = value for the entries of a dict of one file, from entry i on
RECURSIVE PutSymbols(_, _, _, _, _)
PutSymbols(od, f, entries, i, by_path) ==
    IF ~Done(od) \/ i > Len(entries) THEN od
    ELSE PutSymbols(Put(od, Sym(f, entries[i].key),
                        IF by_path THEN <<f.dir, f.stem>> ELSE entries[i].value),
                    f, entries, i + 1, by_path)

\* lines 94-102 for one file, parsed being what _py_functions_and_calls gave
AddFile(acc, f, parsed) ==
    [symbol_to_file |-> PutSymbols(acc.symbol_to_file, f, parsed.calls, 1, TRUE),
     out_calls      |-> PutSymbols(acc.out_calls, f, parsed.calls, 1, FALSE),
     complexity_map |-> PutSymbols(acc.complexity_map, f, parsed.complexity, 1, FALSE)]

\* the loop over py_files (lines 89-102)
RECURSIVE ScanFiles(_, _, _)
ScanFiles(files, i, acc) ==
    IF ~Done(acc) \/ i > Len(files) THEN acc
    ELSE IF files[i].status = "unreadable" THEN ScanFiles(files, i + 1, acc)
    ELSE ScanFiles(files, i + 1, AddFile(acc, files[i], py_functions_and_calls(files[i])))

\* name_index keyed by the qualified name instead of the function name
Targets_qualified(syms, cal) == SelectSeq(syms, LAMBDA s : s[2] = <<cal>>)

\* name_index.get(cal, [])
Targets(syms, cal) == SelectSeq(syms, LAMBDA s : Short(s) = cal)

\* lines 113-115
EdgesTo(src, targets) ==
    [i \in 1..Len(targets) |-> [from |-> src, to |-> targets[i]]]

Smallest(names) == CHOOSE c \in names : \A d \in names : c <= d

\* the edges one caller contributes; a set is iterated in no fixed order, here
\* smallest name first: the order shows in the list of edges only (lines 111-115)
RECURSIVE EdgesOfCaller(_, _, _)
EdgesOfCaller(src, callees, syms) ==
    IF callees = {} THEN <<>>
    ELSE EdgesTo(src, SelectSeq(Targets(syms, Smallest(callees)), LAMBDA t : src # t))
         \o EdgesOfCaller(src, callees \ {Smallest(callees)}, syms)

\* the loop over out_calls (lines 110-115)
RECURSIVE BuildEdges(_, _, _)
BuildEdges(out_calls, i, syms) ==
    IF i > Len(out_calls) THEN <<>>
    ELSE EdgesOfCaller(out_calls[i].key, out_calls[i].value, syms)
         \o BuildEdges(out_calls, i + 1, syms)

\* degree[sym] = degree.get(sym, 0) + 1
Bump(degree, sym) == Put(degree, sym, Get(degree, sym, 0) + 1)

\* an edge counted for its caller only
CountEdge_from_only(degree, e) == Bump(degree, e.from)

\* the body of the loop over edges (lines 121-122)
CountEdge(degree, e) == Bump(Bump(degree, e.from), e.to)

\* the loop over edges (lines 119-122)
RECURSIVE CountDegrees(_, _, _)
CountDegrees(edges, i, degree) ==
    IF ~Done(degree) \/ i > Len(edges) THEN degree
    ELSE CountDegrees(edges, i + 1, CountEdge(degree, edges[i]))

\* round(math.log(k) * 10^7) for k = 2..31
LogTable ==
    << 6931472, 10986123, 13862944, 16094379, 17917595, 19459101, 20794415, 21972246,
       23025851, 23978953, 24849066, 25649494, 26390573, 27080502, 27725887, 28332133,
       28903718, 29444390, 29957323, 30445224, 30910425, 31354942, 31780538, 32188758,
       32580965, 32958369, 33322045, 33672958, 34011974, 34339872 >>

\* round((cplx / max_c) * math.log(1 + deg + 1), 4), in units of 1/10000
hotspot_score(cplx, max_c, deg) ==
    IF max_c = 0 THEN 0
    ELSE ((cplx * LogTable[deg + 1]) \div max_c + 500) \div 1000

\* lines 124-134
MakeNodes(cm, symbol_to_file, degree, max_c) ==
    [i \in 1..Len(cm) |->
        [id         |-> cm[i].key,
         complexity |-> cm[i].value,
         file       |-> Get(symbol_to_file, cm[i].key, <<>>),
         degree     |-> Get(degree, cm[i].key, 0),
         hotspot    |-> hotspot_score(cm[i].value, max_c, Get(degree, cm[i].key, 0))]]

\* the nodes in the order given by order, as hotspot entries
Ranked(nodes, order) ==
    [i \in 1..Len(order) |-> [id |-> nodes[order[i]].id, score |-> nodes[order[i]].hotspot]]

\* lines 136-140
Hotspots(nodes) ==
    FirstN(Ranked(nodes, SortedDescending([i \in 1..Len(nodes) |-> nodes[i].hotspot])),
           hotspot_limit)

\* lines 142-146
Result(nodes, edges) == [nodes |-> nodes, edges |-> edges, hotspots |-> Hotspots(nodes)]

\* lines 117-146, the dicts of the scan and the edges being known
WithEdges(scanned, edges) ==
    Result(MakeNodes(scanned.complexity_map, scanned.symbol_to_file,
                     CountDegrees(edges, 1, <<>>),
                     MaxOf(Values(scanned.complexity_map), 1)),
           edges)

\* lines 104-146, the dicts of the scan being known
Assemble(scanned) ==
    WithEdges(scanned, BuildEdges(scanned.out_calls, 1, Keys(scanned.complexity_map)))

build_graph(r) ==
    Assemble(ScanFiles(py_files(r), 1,
                       [symbol_to_file |-> <<>>, out_calls |-> <<>>, complexity_map |-> <<>>]))

\* ------------------------------------------------------ build_refactor_plan
\* round((c / max_c) * 0.6 + (d / max_d) * 0.4, 4), in units of 1/10000
impact_score(c, max_c, d, max_d) ==
    ((6 * c * max_d + 4 * d * max_c) * 20000 + 10 * max_c * max_d) \div (20 * max_c * max_d)

OrOne(v) == IF v = 0 THEN 1 ELSE v

\* the actions of a node, with > where the code has >=
actions_of_strict(c, d) ==
    IF c > extract_threshold /\ d > decouple_threshold
    THEN <<"extract-method", "reduce-branching", "decouple-deps">>
    ELSE IF c > extract_threshold THEN <<"extract-method", "reduce-branching">>
    ELSE IF d > decouple_threshold THEN <<"decouple-deps">>
    ELSE <<"add-tests">>

\* lines 37-43
actions_of(c, d) ==
    IF c >= extract_threshold /\ d >= decouple_threshold
    THEN <<"extract-method", "reduce-branching", "decouple-deps">>
    ELSE IF c >= extract_threshold THEN <<"extract-method", "reduce-branching">>
    ELSE IF d >= decouple_threshold THEN <<"decouple-deps">>
    ELSE <<"add-tests">>

\* lines 33-54, max_c and max_d being known
Suggest(nodes, max_c, max_d) ==
    [i \in 1..Len(nodes) |->
        [id           |-> nodes[i].id,
         file         |-> nodes[i].file,
         reason       |-> [complexity |-> nodes[i].complexity, degree |-> nodes[i].degree],
         impact_score |-> impact_score(nodes[i].complexity, max_c, nodes[i].degree, max_d),
         actions      |-> actions_of(nodes[i].complexity, nodes[i].degree)]]

\* the suggestions in the order of the nodes (lines 25-54)
suggestions_of(nodes) ==
    Suggest(nodes,
            OrOne(MaxOf([i \in 1..Len(nodes) |-> nodes[i].complexity], 0)),
            OrOne(MaxOf([i \in 1..Len(nodes) |-> nodes[i].degree], 0)))

\* suggestions[:top_n] taking the last top_n suggestions
top_slice_last(s, n) == SubSeq(s, Len(s) - (IF Len(s) < n THEN Len(s) ELSE n) + 1, Len(s))

\* suggestions[:top_n] for top_n >= 0
top_slice(s, n) == FirstN(s, n)

Reordered(s, order) == [i \in 1..Len(order) |-> s[order[i]]]

\* suggestions.sort(key=impact_score, reverse=True)
sort_suggestions(s) ==
    Reordered(s, SortedDescending([i \in 1..Len(s) |-> s[i].impact_score]))

\* lines 20-60, the nodes of the graph being known
PlanFor(nodes, n, t) ==
    IF nodes = <<>> THEN [generated_at |-> t, suggestions |-> <<>>]
    ELSE [generated_at |-> t,
          suggestions  |-> top_slice(sort_suggestions(suggestions_of(nodes)), n)]

build_refactor_plan(r, n, t) == PlanFor(build_graph(r).nodes, n, t)

\* ----------------------------------------------------------------- actions
\* no call has been made on the tree
Fresh == graph = NoGraph /\ plan = NoPlan

\* build_graph(root)
BuildGraph ==
    /\ Fresh
    /\ graph' = build_graph(root)
    /\ UNCHANGED <<root, top_n, plan>>
    /\ UNCHANGED <<provider_vars, analyzer_vars, complexity_vars, limiter_vars>>

\* build_refactor_plan(root, n); graph is the local g of the call
BuildRefactorPlan(n) ==
    /\ Fresh
    /\ graph' = build_graph(root)
    /\ top_n' = n
    /\ plan' = build_refactor_plan(root, n, clock)
    /\ UNCHANGED root
    /\ UNCHANGED <<provider_vars, analyzer_vars, complexity_vars, limiter_vars>>

\* any tree on disk, no call made yet
InitGraphs ==
    /\ InitManager
    /\ settings = [gemini |-> "None", huggingface |-> "None", openai |-> "None"]
    /\ InitAnalyzer
    /\ root \in Roots
    /\ graph = NoGraph
    /\ top_n = default_top_n
    /\ plan = NoPlan
    /\ InitComplexity
    /\ InitLimiter

NextGraphs ==
    \/ BuildGraph
    \/ \E n \in TopNs : BuildRefactorPlan(n)

SpecGraphs == InitGraphs /\ [][NextGraphs]_vars

\* ======================================================== ComplexityAnalyzer
\* compute_complexity (backend/app/services/complexity_analyzer.py) as a
\* function of its arguments and of the state of the tree-sitter parsers.
\* ------------------------------------------------------------------ bounds
MaxCopies == 2      \* times a text is written out in one source

\* ------------------------------------------------------------------ inputs
PyTestSource ==
    << "def foo(x):", "\n", " ", "if x:", "\n", " ", " ", "return 1", "\n",
       " ", "else:", "\n", " ", " ", "return 0", "\n" >>

Texts ==
    { <<"return 1">>,
      <<"return 1;">>,
      <<"x = 1", "\n", "return 1", "\n">>,
      <<"import os", "\n", "return 1", "\n">>,
      <<"int a = 1;", "\n", "return a;", "\n">>,
      PyTestSource,
      <<"if x:", "\n", " ", "return 1", "\n">>,
      <<"if x:", "\n", " ", "return 1", "\n", "elif y:", "\n", " ", "return 0", "\n">>,
      <<"x = a and b", "\n">>,
      <<"# if x", "\n">>,
      <<"#[inline]", "\n">>,
      <<JsTestSource>>,
      <<TsTestSource>>,
      <<"if (x) {", "\n", " ", "return 1;", "\n", "}", "\n">>,
      <<"return a && b;", "\n">>,
      <<"// if (x)", "\n">>,
      <<" ", "\n">> }

\* a text once, or several times over when it ends in a line break
Sources ==
    {Snippet(<<>>, 0)}
    \cup { Snippet(t, n) : t \in Texts, n \in 1..1 }
    \cup { Snippet(t, n) : t \in {u \in Texts : u[Len(u)] = "\n"}, n \in 2..MaxCopies }

ComplexityLanguages ==
    {"python", "Python", "javascript", "js", "typescript", "ts", "TS", "java", "Java",
     "go", "rust", "cobol"}

ParserStates == {"ok", "unavailable", "raises"}

\* ----------------------------------------------------------------- actions
Pending == measurement # NoMeasure /\ measurement.value = -1

\* compute_complexity(measurement.language, measurement.content)
ComputeComplexity ==
    /\ Pending
    /\ measurement' =
          [measurement EXCEPT !.value = compute_complexity_with(measurement.parser,
                                                                measurement.language,
                                                                measurement.content)]
    /\ UNCHANGED <<provider_vars, analyzer_vars, graph_vars, limiter_vars>>

InitMeasure ==
    /\ InitManager
    /\ settings = [gemini |-> "None", huggingface |-> "None", openai |-> "None"]
    /\ InitAnalyzer
    /\ InitGraph
    /\ InitLimiter
    /\ measurement \in [language : ComplexityLanguages, content : Sources,
                        parser : ParserStates, value : {-1}]

NextComplexity == ComputeComplexity

SpecComplexity == InitMeasure /\ [][NextComplexity]_vars

\* ------------------------------------------------- claims about AIAnalyzer
\* an analyze_code call began in this step; its arguments are in call'
AnalysisBegan == analyzed' = analyzed + 1

KeyOf(cl) == generate_cache_key(cl.code, cl.language, cl.show_all, cl.analysis_type)

\* the cache holds an entry for the call's arguments that is younger than the TTL
LiveEntry(cl) == KeyOf(cl) \in DOMAIN cache /\ clock - cache[KeyOf(cl)].timestamp < cache_ttl

\* the cache holds an entry for the call's arguments whose age is at least the TTL
StaleEntry(cl) == KeyOf(cl) \in DOMAIN cache /\ clock - cache[KeyOf(cl)].timestamp >= cache_ttl

\* C11: once a call has cached its post-processed list, whatever the list, a
\* call with the same arguments made within the TTL returns that list and
\* invokes no provider.
C11_CacheRoundTrip ==
    [][ (AnalysisBegan /\ LiveEntry(call')) =>
            /\ call'.pc = "returned"
            /\ call'.result = cache[KeyOf(call')].suggestions
            /\ ~call'.invoked ]_vars

\* C12: a cache lookup never returns an entry whose age is at least cache_ttl;
\* looking up such an entry removes it and the request goes on as a miss.
C12_CacheTTL ==
    [][ AnalysisBegan =>
            /\ call'.hit => LiveEntry(call') /\ call'.result = cache[KeyOf(call')].suggestions
            /\ (call'.looked_up /\ StaleEntry(call')) =>
                   /\ KeyOf(call') \notin DOMAIN cache'
                   /\ ~call'.hit
                   /\ call'.pc = "awaiting" \/ call'.raised_in \in StepsBeforeAwait ]_vars

\* a lookup has removed an entry that had reached the TTL and the call is now
\* waiting for the provider manager
C12_Witness == call.evicted /\ call.pc = "awaiting" /\ call.invoked

\* the call was made with blank code or with a language that is not supported
InvalidInput(cl) == StripIsEmpty(cl.code) \/ cl.language \notin SupportedLanguages

\* C13: analyze_code called with blank code or an unsupported language fails
\* with the ValueError of the validation step, and makes no cache lookup, no
\* provider call and no cache write.
C13_ValidationError ==
    (call.pc # "idle" /\ InvalidInput(call)) =>
        /\ call.pc = "raised"
        /\ call.error = "ValueError"
        /\ ~call.looked_up /\ ~call.invoked /\ ~call.wrote

\* C14: for valid input, whichever step of the pipeline raises, analyze_code
\* returns the fallback list, which holds between 1 and 3 suggestions.
C14_FallbackOnError ==
    (~InvalidInput(call) /\ call.raised_in \in StepsBeforeAwait \cup StepsAfterAwait) =>
        /\ call.pc = "returned"
        /\ call.result = get_fallback_suggestions(call.code, call.language,
                                                  compute_complexity(call.language, call.code))
        /\ Len(call.result) \in 1..3

\* ----------------------------------------- claims about the graph builders
\* build_graph has returned
Built == graph # NoGraph

\* build_refactor_plan has returned
Planned == plan # NoPlan

\* the files of the tree that build_graph reads and parses
Analysed(f) == f.dir \notin {"venv", "site-packages", ".git"} /\ f.status = "ok"

\* the places <<file, definition>> at which a function definition is discovered
Places ==
    UNION { {<<i, j>> : j \in 1..Len(root.files[i].defs)} :
              i \in {k \in 1..Len(root.files) : Analysed(root.files[k])} }

SymbolAt(p) == <<root.files[p[1]].stem, root.files[p[1]].defs[p[2]].fq>>

Symbols == {SymbolAt(p) : p \in Places}

\* the definition of a symbol that is met last
LastPlace(s) ==
    CHOOSE p \in Places :
        /\ SymbolAt(p) = s
        /\ \A q \in Places : SymbolAt(q) = s =>
              (q[1] < p[1] \/ (q[1] = p[1] /\ q[2] <= p[2]))

\* the names called in the body of symbol s
CalledIn(s) == root.files[LastPlace(s)[1]].defs[LastPlace(s)[2]].calls

EdgePairs == {<<graph.edges[i].from, graph.edges[i].to>> : i \in 1..Len(graph.edges)}

NodeOf(id) == graph.nodes[CHOOSE i \in 1..Len(graph.nodes) : graph.nodes[i].id = id]

\* the file of two functions in which function 1 calls function 2
TwoFunctions == Tree(<<File("src", "a", "ok", <<Def(<<1>>, {2}, 1), Def(<<2>>, {}, 2)>>)>>)

\* C15: the edges are exactly the pairs (c, s) of discovered symbols with
\* s # c and the function name of s among the names called in the body of c,
\* each pair once; so there is no self-edge, and the file in which A calls B
\* gives the single edge A -> B with both degrees 1.
C15_EdgesByName ==
    Built =>
        /\ EdgePairs = {<<c, s>> \in Symbols \X Symbols : s # c /\ s[2][Len(s[2])] \in CalledIn(c)}
        /\ Cardinality(EdgePairs) = Len(graph.edges)
        /\ \A i \in 1..Len(graph.edges) : graph.edges[i].from # graph.edges[i].to
        /\ root = TwoFunctions =>
              /\ graph.edges = <<[from |-> <<"a", <<1>>>>, to |-> <<"a", <<2>>>>]>>
              /\ NodeOf(<<"a", <<1>>>>).degree = 1
              /\ NodeOf(<<"a", <<2>>>>).degree = 1

\* a graph in which a nested function is called by its short name and a
\* function that calls itself has no edge for that call
C15_Witness ==
    /\ Built
    /\ \E i \in 1..Len(graph.edges) : Len(graph.edges[i].to[2]) = 2
    /\ \E s \in Symbols : s[2][Len(s[2])] \in CalledIn(s)

RECURSIVE SumOfDegrees(_)
SumOfDegrees(i) == IF i = 0 THEN 0 ELSE graph.nodes[i].degree + SumOfDegrees(i - 1)

\* C16: the degree of a node is the number of edges leaving it plus the
\* number of edges entering it; the degrees sum to twice the number of edges.
C16_DegreeCount ==
    Built =>
        /\ \A n \in 1..Len(graph.nodes) :
              graph.nodes[n].degree =
                  Cardinality({i \in 1..Len(graph.edges) : graph.edges[i].from = graph.nodes[n].id})
                  + Cardinality({i \in 1..Len(graph.edges) : graph.edges[i].to = graph.nodes[n].id})
        /\ SumOfDegrees(Len(graph.nodes)) = 2 * Len(graph.edges)

\* a graph with a node that is both a caller and a callee
C16_Witness ==
    /\ Built
    /\ \E n \in 1..Len(graph.nodes), i, j \in 1..Len(graph.edges) :
          graph.edges[i].from = graph.nodes[n].id /\ graph.edges[j].to = graph.nodes[n].id

\* the position of the node a hotspot entry names
NodeIndex(id) == CHOOSE i \in 1..Len(graph.nodes) : graph.nodes[i].id = id

\* C17: hotspots holds min(20, number of nodes) entries, each the id and score
\* of a node, with scores that do not increase; no node left out has a score
\* above a listed one; nodes of equal score keep the order of the nodes.
C17_HotspotRanking ==
    Built =>
        LET h == graph.hotspots IN
        /\ Len(h) = IF Len(graph.nodes) < 20 THEN Len(graph.nodes) ELSE 20
        /\ \A i \in 1..Len(h) :
              \E n \in 1..Len(graph.nodes) :
                  graph.nodes[n].id = h[i].id /\ graph.nodes[n].hotspot = h[i].score
        /\ \A i, j \in 1..Len(h) : i < j =>
              /\ h[i].id # h[j].id
              /\ h[i].score >= h[j].score
              /\ h[i].score = h[j].score => NodeIndex(h[i].id) < NodeIndex(h[j].id)
        /\ \A n \in 1..Len(graph.nodes) :
              (\A i \in 1..Len(h) : h[i].id # graph.nodes[n].id) =>
                  \A i \in 1..Len(h) : graph.nodes[n].hotspot <= h[i].score

\* more than 20 nodes, of which the list names 20, two of them with one score
C17_Witness ==
    /\ Built
    /\ Len(graph.nodes) > 20
    /\ Len(graph.hotspots) = 20
    /\ graph.hotspots[1].score > graph.hotspots[20].score
    /\ \E i \in 1..19 : graph.hotspots[i].score = graph.hotspots[i + 1].score

\* the tree without the files that cannot be read or parsed
GoodFilesOnly == [root EXCEPT !.files = SelectSeq(root.files, LAMBDA f : f.status = "ok")]

\* C18: a file that cannot be read or parsed adds no node and no edge while
\* the other files are analysed as if it were absent; a root without
\* analysable files, or that does not exist, gives empty nodes, edges and
\* hotspots.
C18_BadFilesSkipped ==
    Built =>
        /\ graph = build_graph(GoodFilesOnly)
        /\ \A n \in 1..Len(graph.nodes) : graph.nodes[n].id \in Symbols
        /\ \A s \in Symbols : \E n \in 1..Len(graph.nodes) : graph.nodes[n].id = s
        /\ Places = {} =>
              graph.nodes = <<>> /\ graph.edges = <<>> /\ graph.hotspots = <<>>

\* a tree with a file that cannot be read or parsed, holding definitions, next
\* to a file that contributes nodes
C18_Witness ==
    /\ Built
    /\ \E i \in 1..Len(root.files) :
          root.files[i].status # "ok" /\ root.files[i].defs # <<>>
    /\ graph.nodes # <<>>

Has_action(s, a) == \E k \in 1..Len(s.actions) : s.actions[k] = a

\* C19: a suggestion holds extract-method and reduce-branching exactly when the
\* node's complexity is at least 10 and decouple-deps exactly when its degree
\* is at least 6, and is [add-tests] when neither holds; the plan of a single
\* node of complexity 10 and degree 0 has impact 0.6 and the actions
\* extract-method and reduce-branching.
C19_SuggestionContent ==
    Planned =>
        /\ \A i \in 1..Len(plan.suggestions) :
              LET s == plan.suggestions[i]
                  n == NodeOf(s.id)
              IN /\ Has_action(s, "extract-method") <=> n.complexity >= 10
                 /\ Has_action(s, "reduce-branching") <=> n.complexity >= 10
                 /\ Has_action(s, "decouple-deps") <=> n.degree >= 6
                 /\ (n.complexity < 10 /\ n.degree < 6) => s.actions = <<"add-tests">>
                 /\ s.actions # <<>>
        /\ (/\ Len(graph.nodes) = 1
            /\ graph.nodes[1].complexity = 10
            /\ graph.nodes[1].degree = 0
            /\ top_n >= 1) =>
               /\ Len(plan.suggestions) = 1
               /\ plan.suggestions[1].impact_score = 6000
               /\ plan.suggestions[1].actions = <<"extract-method", "reduce-branching">>

\* the plan of a single node of complexity 10 and degree 0
C19_Witness ==
    /\ Planned
    /\ Len(graph.nodes) = 1
    /\ graph.nodes[1].complexity = 10
    /\ graph.nodes[1].degree = 0
    /\ Len(plan.suggestions) = 1

\* the impact of every node of the graph, in the order of the nodes
Impacts == suggestions_of(graph.nodes)

\* C20: the plan lists suggestions by impact, largest first; they are the
\* min(top_n, number of nodes) nodes of highest impact; a graph without nodes
\* gives an empty list with a timestamp.
C20_PlanOrderAndSize ==
    Planned =>
        LET s == plan.suggestions IN
        /\ plan.generated_at >= 0
        /\ Len(s) = IF top_n < Len(graph.nodes) THEN top_n ELSE Len(graph.nodes)
        /\ \A i, j \in 1..Len(s) : i < j =>
              s[i].impact_score >= s[j].impact_score /\ s[i].id # s[j].id
        /\ \A i \in 1..Len(s) : \E n \in 1..Len(Impacts) : Impacts[n] = s[i]
        /\ \A n \in 1..Len(Impacts) :
              (\A i \in 1..Len(s) : s[i].id # Impacts[n].id) =>
                  \A i \in 1..Len(s) : Impacts[n].impact_score <= s[i].impact_score
        /\ graph.nodes = <<>> => s = <<>>

\* a plan that leaves out nodes, one of them with a lower impact than a
\* listed one
C20_Witness ==
    /\ Planned
    /\ top_n > 0
    /\ Len(plan.suggestions) = top_n
    /\ \E n \in 1..Len(Impacts) :
          Impacts[n].impact_score < plan.suggestions[top_n].impact_score

\* ------------------------------------- further claims about the breaker
Untracked == {"TimeoutException", "ConnectError", "JSONDecodeError", "ValueError"}

\* C24: on_failure with an exception that is not a ProviderUnavailable leaves
\* failure_count, last_failure_time and status as they were, whatever the state
\* of the breaker: both for the exceptions a provider call ends in and for any
\* other untracked exception handed to on_failure.
C24_CallStep ==
    \A r \in Reqs : \A p \in Real : \A k \in Untracked :
        Ended(r, p, k) => cb'[p] = cb[p]

C24_AnyState ==
    \A p \in Real : \A k \in Untracked : on_failure(cb[p], k, now) = cb[p]

C24_UntrackedIgnored == [][C24_CallStep]_vars /\ []C24_AnyState

\* a call admitted by the OPEN -> HALF_OPEN transition has timed out, and the
\* breaker is as can_execute left it
C24_Witness ==
    /\ pc[1] = "returned"
    /\ pc[2] = "idle"
    /\ log[1] = <<Entry("gemini", "TimeoutException", <<>>)>>
    /\ cb["gemini"].status = HALF_OPEN
    /\ cb["gemini"].failure_count = failure_threshold

\* C25: a call that ends while the breaker is HALF_OPEN resolves it: a success
\* leaves it CLOSED with failure_count 0, a failure leaves it OPEN with
\* last_failure_time the time of the failure and can_execute() false; it is not
\* HALF_OPEN afterwards.
C25_HalfOpenResolves ==
    [][\A r \in Reqs : \A p \in Real :
          (cb[p].status = HALF_OPEN /\ Resumed(r) /\ provider_order[pos[r]] = p) =>
              /\ Ended(r, p, "ok") =>
                    (cb'[p].status = CLOSED /\ cb'[p].failure_count = 0)
              /\ (\E k \in UpstreamFailures : Ended(r, p, k)) =>
                    /\ cb'[p].status = OPEN
                    /\ cb'[p].last_failure_time = now
                    /\ ~can_execute(cb'[p], now).ok
              /\ (\E k \in UpstreamFailures \cup {"ok"} : Ended(r, p, k)) =>
                    cb'[p].status # HALF_OPEN]_vars

\* C26: the step in which a task is cancelled while its provider call is
\* outstanding changes no breaker and no token counter, and the call ends by
\* raising CancelledError.
C26_CancelStep ==
    \A r \in Reqs : \A p \in Real :
        Ended(r, p, "CancelledError") =>
            /\ cb' = cb
            /\ tracker' = tracker
            /\ pc'[r] = "raised"
            /\ error'[r] = "CancelledError"

C26_CancellationIsClean == [][C26_CancelStep]_vars

\* a probe admitted in HALF_OPEN was cancelled after an earlier call had
\* recorded usage: the breaker is still HALF_OPEN
C26_Witness ==
    \E r \in Reqs :
        /\ error[r] = "CancelledError"
        /\ log[r] = <<Entry("gemini", "CancelledError", <<>>)>>
        /\ cb["gemini"].status = HALF_OPEN
        /\ "gemini" \in DOMAIN tracker["gemini"]
        /\ tracker["gemini"]["gemini"].total > 0

\* C28: a CLOSED breaker has 0 <= failure_count < failure_threshold, an OPEN or
\* HALF_OPEN breaker has failure_count >= failure_threshold.
C28_StateMatchesCount ==
    \A p \in Real :
        /\ cb[p].status = CLOSED =>
              (0 <= cb[p].failure_count /\ cb[p].failure_count < failure_threshold)
        /\ cb[p].status \in {OPEN, HALF_OPEN} => cb[p].failure_count >= failure_threshold

\* a failure was reported while the breaker was OPEN
C28_Witness ==
    /\ cb["gemini"].status = OPEN
    /\ cb["gemini"].failure_count = failure_threshold + 1
    /\ cb["gemini"].last_failure_time > recovery_timeout

\* -------------------------------------------------- the sweep of the cache
\* analyze_code reached its call of _cleanup_cache in this step, and the call
\* did not raise
SweepCalled == call.pc = "awaiting" /\ call'.pc = "returned" /\ call'.raised_in = "none"

\* C27: _cleanup_cache changes nothing unless more than cleanup_interval has
\* passed since last_cache_cleanup; otherwise it removes exactly the entries
\* older than cache_ttl, leaves the others as they are and sets
\* last_cache_cleanup to the current time.  last_cache_cleanup changes in no
\* other way, and by more than cleanup_interval each time.
C27_SweepStep ==
    /\ SweepCalled =>
          /\ KeyOf(call) \in DOMAIN cache'
          /\ cache'[KeyOf(call)] = [suggestions |-> call'.result, timestamp |-> clock]
          /\ clock - last_cache_cleanup <= cleanup_interval =>
                /\ last_cache_cleanup' = last_cache_cleanup
                /\ call'.swept = -1
                /\ DOMAIN cache' = DOMAIN cache \cup {KeyOf(call)}
          /\ clock - last_cache_cleanup > cleanup_interval =>
                /\ last_cache_cleanup' = clock
                /\ call'.swept >= 0
                /\ \A k \in DOMAIN cache \ {KeyOf(call)} :
                      k \in DOMAIN cache' <=> clock - cache[k].timestamp <= cache_ttl
          /\ \A k \in DOMAIN cache' \ {KeyOf(call)} : k \in DOMAIN cache /\ cache'[k] = cache[k]
    /\ last_cache_cleanup' # last_cache_cleanup =>
          /\ SweepCalled
          /\ last_cache_cleanup' - last_cache_cleanup > cleanup_interval

C27_GatedSweep == [][C27_SweepStep]_vars

\* the sweep at the end of a call has removed the entry of an earlier call
C27_Witness ==
    /\ call.swept = 1
    /\ last_cache_cleanup = clock
    /\ DOMAIN cache = {KeyOf(call)}
    /\ analyzed > 1

\* ------------------------------------------------ the shape of the graph
\* C29: in what build_graph returns the node ids are pairwise distinct, both
\* ends of every edge are ids of nodes, no pair (from, to) occurs twice, and
\* every node has complexity >= 1 and degree >= 0.
C29_WellFormed ==
    Built =>
        /\ \A i, j \in 1..Len(graph.nodes) :
              graph.nodes[i].id = graph.nodes[j].id => i = j
        /\ \A e \in 1..Len(graph.edges) :
              /\ \E n \in 1..Len(graph.nodes) : graph.nodes[n].id = graph.edges[e].from
              /\ \E n \in 1..Len(graph.nodes) : graph.nodes[n].id = graph.edges[e].to
        /\ \A d, e \in 1..Len(graph.edges) :
              (/\ graph.edges[d].from = graph.edges[e].from
               /\ graph.edges[d].to = graph.edges[e].to) => d = e
        /\ \A n \in 1..Len(graph.nodes) :
              graph.nodes[n].complexity >= 1 /\ graph.nodes[n].degree >= 0

\* two analysed files share a stem and a qualified name, one of them defines
\* that name twice, and the graph has an edge
C29_Witness ==
    /\ Built
    /\ graph.edges # <<>>
    /\ \E p, q, r \in Places :
          /\ p[1] # q[1]
          /\ q[1] = r[1] /\ q[2] # r[2]
          /\ SymbolAt(p) = SymbolAt(q)
          /\ SymbolAt(q) = SymbolAt(r)

\* ======================================================== RateLimitMiddleware
\* backend/app/core/rate_limit.py as create_app (backend/app/main.py) installs
\* it. Times are ticks of the process's clock; time.time() is Epoch seconds
\* plus wall ticks.
\* ------------------------------------------------------------------ bounds
MaxRequests == 4      \* HTTP requests received in one behaviour

\* ------------------------------------------------------------------ inputs
TicksPerSecond == 4

\* int(time.time()) when the process started
Epoch == 1700000000

PlainRequest(path, host) == [NoRequest EXCEPT !.path = path, !.host = host]

HttpRequests ==
    { PlainRequest("/api/v1/health", "10.0.0.1"),
      PlainRequest("/api/v1/analysis-history", "10.0.0.1"),
      [PlainRequest("/api/v1/analysis-history", "10.0.0.1") EXCEPT !.api_key = "k1"],
      PlainRequest("/health", "10.0.0.1") }

\* between two requests
Delays == {1, TicksPerSecond}

\* what the Redis server does with a command
RedisStates == {"ok", "down"}

\* security.rate_limit_window, rate_limit_max_requests and rate_limit_store as
\* the environment sets them
LimiterConfigs ==
    { [window_sec |-> w.window_sec, max_requests |-> w.max_requests, store |-> s] :
        w \in { [window_sec |-> 1, max_requests |-> 3], [window_sec |-> 2, max_requests |-> 2] },
        s \in {"memory", "redis"} }

\* --------------------------------------------------------------- operators
Ticks(seconds) == seconds * TicksPerSecond

\* int(x) for x a number of ticks read as seconds: towards zero
WholeSeconds(ticks) ==
    IF ticks >= 0 THEN ticks \div TicksPerSecond ELSE 0 - ((0 - ticks) \div TicksPerSecond)

\* int(time.time()) at tick t
TimeInt(t) == Epoch + t \div TicksPerSecond

AtLeastZero(n) == IF n > 0 THEN n ELSE 0

\* path.startswith("/api/v1/")
IsApiPath(path) == path \in {"/api/v1/health", "/api/v1/metrics", "/api/v1/analysis-history"}

ExemptPaths == {"/api/v1/health", "/api/v1/metrics"}

ClientIp(req) ==
    IF req.cf_connecting_ip # "None" THEN req.cf_connecting_ip
    ELSE IF req.x_real_ip # "None" THEN req.x_real_ip
    ELSE IF req.x_forwarded_for # <<>> THEN req.x_forwarded_for[1]
    ELSE req.host

generate_rate_limit_key(req) ==
    IF req.user_id # "None" THEN <<"user", req.user_id, req.path>>
    ELSE IF req.api_key # "None" THEN <<"api_key", req.api_key, req.path>>
    ELSE <<"ip", ClientIp(req), req.path>>

\* self._requests.get(key, [])
Recorded(requests, key) == IF key \in DOMAIN requests THEN requests[key] ELSE <<>>

\* the request times still inside the window that ends at t
InWindow(times, t, window_sec) == SelectSeq(times, LAMBDA x : x > t - Ticks(window_sec))

\* min(times)
Oldest(times) ==
    CHOOSE x \in {times[i] : i \in 1..Len(times)} : \A i \in 1..Len(times) : x <= times[i]

\* the answer of a store that holds times after it recorded the request made
\* at t
Judged(cfg, times, t) ==
    IF Len(times) > cfg.max_requests
    THEN [times |-> times, allowed |-> FALSE, remaining |-> 0,
          retry_after |-> AtLeastZero(WholeSeconds(Oldest(times) + Ticks(cfg.window_sec) - t))]
    ELSE [times |-> times, allowed |-> TRUE,
          remaining |-> AtLeastZero(cfg.max_requests - Len(times)),
          retry_after |-> TimeInt(t) + cfg.window_sec]

\* InMemoryRateLimiter.hit
memory_hit(cfg, times, t) == Judged(cfg, Append(InWindow(times, t, cfg.window_sec), t), t)

\* zadd of the member str(t) with score t
ZAdd(times, t) ==
    IF \E i \in 1..Len(times) : times[i] = t THEN times ELSE Append(times, t)

\* RedisSlidingWindowRateLimiter.hit; the key's expiry removes nothing the
\* next hit would not remove
redis_hit(cfg, times, t, redis) ==
    IF redis = "down"
    THEN [times |-> times, allowed |-> TRUE, remaining |-> cfg.max_requests - 1,
          retry_after |-> TimeInt(t) + cfg.window_sec]
    ELSE Judged(cfg, InWindow(ZAdd(times, t), t, cfg.window_sec), t)

\* self.store.hit(key), store as _initialize_store chose it
store_hit(cfg, times, t, redis) ==
    IF cfg.store = "redis" THEN redis_hit(cfg, times, t, redis) ELSE memory_hit(cfg, times, t)

\* the store after the hit
Stored(requests, key, times) == IF times = <<>> THEN requests ELSE (key :> times) @@ requests

\* call_next(request) untouched
PassedOn(req) == [NoResponse EXCEPT !.request = req, !.status = 200]

\* the response dispatch builds from the store's answer h at tick t
Limited(cfg, req, key, h, t) ==
    IF h.allowed
    THEN [request |-> req, key |-> key, status |-> 200, hit |-> h,
          headers |-> ("X-RateLimit-Limit" :> cfg.max_requests)
                      @@ ("X-RateLimit-Remaining" :> h.remaining)
                      @@ ("X-RateLimit-Reset" :> h.retry_after)]
    ELSE [request |-> req, key |-> key, status |-> 429, hit |-> h,
          headers |-> ("X-RateLimit-Limit" :> cfg.max_requests)
                      @@ ("X-RateLimit-Remaining" :> 0)
                      @@ ("X-RateLimit-Reset" :> h.retry_after)
                      @@ ("Retry-After" :> AtLeastZero(h.retry_after - TimeInt(t)))]

\* RateLimitMiddleware.dispatch for a request to a protected path
Protected(req, key, h, t) ==
    /\ hits' = Stored(hits, key, h.times)
    /\ response' = Limited(limiter, req, key, h, t)

\* ----------------------------------------------------------------- actions
\* d ticks after the last request, req arrives and dispatch answers it
Dispatch(req, d, redis) ==
    /\ Len(sent) < MaxRequests
    /\ limiter.store = "redis" \/ redis = "ok"
    /\ wall' = wall + d
    /\ sent' = Append(sent, [request |-> req, at |-> wall + d])
    /\ IF ~IsApiPath(req.path) \/ req.path \in ExemptPaths
       THEN hits' = hits /\ response' = PassedOn(req)
       ELSE Protected(req, generate_rate_limit_key(req),
                      store_hit(limiter, Recorded(hits, generate_rate_limit_key(req)),
                                wall + d, redis),
                      wall + d)
    /\ UNCHANGED <<limiter, provider_vars, analyzer_vars, graph_vars, complexity_vars>>

InitMiddleware ==
    /\ InitManager
    /\ settings = [gemini |-> "None", huggingface |-> "None", openai |-> "None"]
    /\ InitAnalyzer
    /\ InitGraph
    /\ InitComplexity
    /\ limiter \in LimiterConfigs
    /\ hits = <<>>
    /\ wall = 0
    /\ sent = <<>>
    /\ response = NoResponse

NextLimiter == \E req \in HttpRequests, d \in Delays, redis \in RedisStates : Dispatch(req, d, redis)

SpecLimiter == InitMiddleware /\ [][NextLimiter]_vars

\* ------------------------------------------- claims about compute_complexity
\* compute_complexity has returned
Measured == measurement.value # -1

PythonFamily == {"python"}

JsFamily == {"javascript", "js", "typescript", "ts"}

\* the tokens that are, or hold, an if statement of the language
IfTokens(lang) ==
    IF lang \in PythonFamily THEN {"if x:"}
    ELSE IF lang \in JsFamily THEN {"if (x) {", JsTestSource, TsTestSource}
    ELSE {}

HasIfStatement(lang, c) == c.times > 0 /\ \E i \in 1..Len(c.unit) : c.unit[i] \in IfTokens(lang)

\* C21: for python, javascript and typescript (js, ts) source that holds an if
\* statement, with or without else, compute_complexity returns at least 2,
\* whether the parser is used or the keyword count.
C21_BranchRaisesComplexity ==
    (Measured /\ HasIfStatement(Lower(measurement.language), measurement.content)) =>
        measurement.value >= 2

\* the TypeScript test source, counted by keywords because the parser is not
\* there
C21_Witness ==
    /\ Measured
    /\ measurement.language = "ts"
    /\ measurement.parser = "unavailable"
    /\ measurement.content = Snippet(<<TsTestSource>>, 1)
    /\ measurement.value = 2

DecisionTokens ==
    {"if x:", "elif y:", "if (x) {", "# if x", "// if (x)", "x = a and b",
     JsTestSource, TsTestSource}

StatementTokens ==
    {"return 1", "return 1;", "return 0", "x = 1", "import os", "int a = 1;", "return a;"}

HasDecisionKeyword(c) ==
    c.times > 0 /\ \E i \in 1..Len(c.unit) : c.unit[i] \in DecisionTokens

\* statements one after the other, no branch
StraightLine(c) ==
    /\ c.times > 0
    /\ \A i \in 1..Len(c.unit) : c.unit[i] \in StatementTokens \cup {" ", "\n"}
    /\ \E i \in 1..Len(c.unit) : c.unit[i] \in StatementTokens

\* C22: for a supported language compute_complexity returns at least 1 for
\* input that holds a decision keyword and exactly 1 for straight-line code of
\* one or several statements, whichever tier handles the language.
C22_Baseline ==
    (Measured /\ measurement.language \in SupportedLanguages) =>
        /\ HasDecisionKeyword(measurement.content) => measurement.value >= 1
        /\ StraightLine(measurement.content) => measurement.value = 1

\* ------------------------------------------ claims about RateLimitMiddleware
\* a request has been answered
Answered == sent # <<>>

\* how many of the requests received within the window that ends now came from
\* the client, and went to the route, of the request just answered
SentInWindow ==
    Cardinality({ i \in 1..Len(sent) :
                    /\ sent[i].request = response.request
                    /\ sent[i].at > wall - Ticks(limiter.window_sec) })

\* C23: with a limit of N requests per window, a request of one client to an
\* /api/v1 route (/api/v1/health in the test) that is among the first N of the
\* window is answered 200 with X-RateLimit-Limit and X-RateLimit-Remaining,
\* and the (N+1)th of the window is answered 429 with Retry-After.
C23_LimitEnforced ==
    (Answered /\ IsApiPath(response.request.path)) =>
        /\ SentInWindow <= limiter.max_requests =>
              /\ response.status = 200
              /\ {"X-RateLimit-Limit", "X-RateLimit-Remaining"} \subseteq DOMAIN response.headers
        /\ SentInWindow = limiter.max_requests + 1 =>
              /\ response.status = 429
              /\ "Retry-After" \in DOMAIN response.headers

\* ticks until the oldest request counted for the client leaves the window
UntilOldestLeaves ==
    Oldest(Recorded(hits, response.key)) + Ticks(limiter.window_sec) - wall

\* C30: on a 429 the Retry-After header is the delay the store computed, the
\* whole seconds until the oldest counted request leaves the window, floored
\* at 0, and so is positive when that is a second or more away.
C30_RetryAfterIsTheDelay ==
    response.status = 429 =>
        /\ response.hit.retry_after = AtLeastZero(WholeSeconds(UntilOldestLeaves))
        /\ response.headers["Retry-After"] = response.hit.retry_after
        /\ UntilOldestLeaves >= TicksPerSecond => response.headers["Retry-After"] > 0

====
